---- MODULE Spec2Model ----
(***************************************************************************)
(* State-machine model of the ORB.POND arcade games:                       *)
(*   - the RK4-vs-Verlet rocket game   (orbit_current/assets/launch.py)    *)
(*   - the satellite photography game  (orbit_current/assets/orbit.py)     *)
(*   - the Lagrange points game        (src/opg/lagrange.py)               *)
(*                                                                         *)
(* One behaviour is one execution of one of the three programs; `game`     *)
(* says which.  Every pygame event handler and every frame body is one     *)
(* action.  Vectors are pairs <<x, y>> of integers in pixels.  The games   *)
(* compute with floats; the model computes on the integer lattice, and the *)
(* result of an integrator step is one of a few sample points, one per     *)
(* class of position the frame body tells apart (on the orbit, inside a    *)
(* body, outside the window).                                              *)
(***************************************************************************)
EXTENDS Integers, Sequences, FiniteSets, TLC

VARIABLES
    game,               \* which program is running
    running,            \* "running"; "quit" or "closing" once the loop flag is
                        \* cleared and the pass still completes; "exited";
                        \* "crashed" after an uncaught exception
    \* ---- rocket game (launch.py, locals of main) ----
    show_instructions, launch_mode, launched, game_over, win,
    rkrocket, vrocket, launch_vector,
    \* ---- Lagrange game (lagrange.py, module globals) ----
    game_state, show_lagrange, spawn_point, rocket_trail,
    rocket_angle_total, rocket_angle_prev, rocket_revolutions,
    revolution_times, last_revolution_time, rocket_offscreen_time,
    real_start_time, pos_large, pos_small, vel_large_half, vel_small_half,
    sim_time, rocket_pos, rocket_vel, rocket_vel_half, result_text,
    substep,            \* 0 at the top of the main loop, else the pass of the
                        \* SUBSTEPS loop that runs next
    ticks,              \* pygame.time.get_ticks(), in ms
    \* ---- asteroid game (orbit.py, module globals) ----
    waiting,            \* show_instructions() has not returned yet
    asteroids, satellite_launched, satellite_state, picture_count,
    satellite_path, simulation_time, position_times, accel_data, energy_data,
    game_finished, final_message,
    \* ---- one call of a gravity function, at sub-pixel resolution ----
    gravity_call,
    \* ---- event manager (src/opg/event_manager.py) ----
    subscriptions,      \* EventManager._subscriptions, in insertion order:
                        \* a sequence of [sub, queue]
    subscriptions_lock, \* "free", or the thread that holds it
    em_running,         \* EventManager._running
    active,             \* EventSubscription._active, per subscription
    event_list,         \* EventSubscription._event_list, per subscription
    pygame_queue,       \* events pygame has still to hand out
    pe,                 \* _process_events in the main thread: its position,
                        \* the event in hand and the place of the for loop
    got,                \* what get() has returned, per subscription
    get_raised,         \* the subscription whose get() raised RuntimeError,
                        \* if the last get() raised
    \* ---- the opg program (src/opg/__main__.py) ----
    main_pc,            \* where main() is, in the main thread
    main_exc,           \* the exception main() is unwinding with, followed
                        \* by the chain of its __context__
    game_pc,            \* where _main() is, in the game thread
    display,            \* "none", "requested" once create_display is
                        \* scheduled in the main thread, "created"
    cancel_requested,   \* game_task.cancel has been scheduled
    exit_status         \* the status the process exited with

rocketVars == <<show_instructions, launch_mode, launched, game_over, win,
                rkrocket, vrocket, launch_vector>>

bodyVars == <<pos_large, pos_small, vel_large_half, vel_small_half>>
probeVars == <<rocket_pos, rocket_vel, rocket_vel_half, spawn_point, rocket_trail>>
revVars == <<rocket_angle_total, rocket_angle_prev, rocket_revolutions,
             revolution_times, last_revolution_time>>
lagrangeVars == <<game_state, show_lagrange, bodyVars, probeVars, revVars,
                  rocket_offscreen_time, real_start_time, sim_time,
                  result_text, substep, ticks>>

logVars == <<satellite_path, simulation_time, position_times, accel_data,
             energy_data>>
orbitVars == <<waiting, asteroids, satellite_launched, satellite_state,
               picture_count, logVars, game_finished, final_message>>

\* What the games' handlers never touch
emVars == <<subscriptions, subscriptions_lock, em_running, active, event_list,
            pygame_queue, pe, got, get_raised>>
mainVars == <<main_pc, main_exc, game_pc, display, cancel_requested, exit_status>>
libVars == <<gravity_call, emVars, mainVars>>

vars == <<game, running, rocketVars, lagrangeVars, orbitVars, libVars>>

(***************************************************************************)
(* Vector arithmetic (pygame.Vector2 on the integer lattice)               *)
(***************************************************************************)
Abs(a) == IF a < 0 THEN -a ELSE a

\* Division rounding toward zero, so that Div(-a, b) = -Div(a, b).
Div(a, b) == IF a >= 0 THEN a \div b ELSE -((-a) \div b)

VAdd(a, b) == <<a[1] + b[1], a[2] + b[2]>>
VSub(a, b) == <<a[1] - b[1], a[2] - b[2]>>
VScale(k, a) == <<k * a[1], k * a[2]>>
VDiv(a, k) == <<Div(a[1], k), Div(a[2], k)>>
Length2(a) == a[1] * a[1] + a[2] * a[2]
Cross(a, b) == a[1] * b[2] - a[2] * b[1]

RECURSIVE ISqrtIn(_, _, _)
ISqrtIn(n, lo, hi) ==
    IF lo >= hi THEN lo
    ELSE LET mid == (lo + hi + 1) \div 2
         IN  IF mid * mid <= n THEN ISqrtIn(n, mid, hi) ELSE ISqrtIn(n, lo, mid - 1)

\* floor(sqrt(n)) for 0 <= n < 2^30
ISqrt(n) == ISqrtIn(n, 0, 32767)

Length(a) == ISqrt(Length2(a))

\* math.atan2 in whole degrees, exact on the axes and the diagonals.
Atan2Deg(y, x) ==
    IF x = 0 /\ y = 0 THEN 0
    ELSE LET ax == Abs(x)
             ay == Abs(y)
             base == IF ay <= ax THEN (45 * ay) \div ax ELSE 90 - (45 * ax) \div ay
         IN  IF x >= 0 THEN (IF y >= 0 THEN base ELSE -base)
             ELSE (IF y >= 0 THEN 180 - base ELSE base - 180)

\* a.angle_to(Vector2(1, 0)) = degrees(atan2(0, 1) - atan2(a.y, a.x))
angle_to(a) == 0 - Atan2Deg(a[2], a[1])

None == [kind |-> "None"]

(***************************************************************************)
(* Rocket game: constants                                                  *)
(***************************************************************************)
WIDTH_launch == 1400
HEIGHT_launch == 700
planet_img_width == 150
planet_radius == planet_img_width \div 2
planet_pos == <<WIDTH_launch \div 2, HEIGHT_launch \div 2>>
launch_pos == VAdd(planet_pos, <<0, -(planet_radius + 10)>>)
GM == 500000
\* dt = 0.1 s = 1 / DT_DEN; rocket time is counted in units of dt
DT_DEN == 10
REVOLUTIONS_TO_WIN == 20
\* Line 188, instructions: "3. Maintain an orbit for 150 revolutions to win."
INSTRUCTED_REVOLUTIONS == 150
\* rocket_img is scaled to (15, 30)
rocket_img_width == 15
rocket_radius_launch == rocket_img_width \div 2
\* speed_factor = 0.5 = 1 / SPEED_FACTOR_DEN
SPEED_FACTOR_DEN == 2

gravitational_acceleration(pos) ==
    LET r_vec == VSub(pos, planet_pos)
        r == Length(r_vec)
    IN  IF r = 0 THEN <<0, 0>>
        ELSE VDiv(VScale(-GM, r_vec), r * r * r)

(***************************************************************************)
(* Sample points of a rocket trajectory.  An orbit is sampled every        *)
(* quarter turn at four points that sit exactly on the limits the status   *)
(* checks test: the right, bottom and left window edges and the planet's   *)
(* surface.  A rocket leaves the orbit into the planet or out of the       *)
(* window next to the sample point it is at.                               *)
(***************************************************************************)
PointE == <<WIDTH_launch, planet_pos[2]>>
PointS == <<planet_pos[1], HEIGHT_launch>>
PointW == <<0, planet_pos[2]>>
PointN == VSub(planet_pos, <<0, planet_radius>>)
Dive == VSub(planet_pos, <<0, planet_radius - 1>>)
OffRight == <<WIDTH_launch + 1, planet_pos[2]>>
OffBottom == <<planet_pos[1], HEIGHT_launch + 1>>
OffLeft == <<-1, planet_pos[2]>>
OffTop == <<planet_pos[1], -1>>

PointAt(angle) ==
    CASE angle = 0 -> PointE
      [] angle = -90 -> PointS
      [] angle = -180 -> PointW
      [] angle = 180 -> PointW
      [] OTHER -> PointN

\* Wrap an angle difference as the rockets do: (d + 180) % 360 - 180
WrapDiff(d) == ((d + 180) % 360) - 180

\* The quarter turn after pos, in the sense the heading goes round the planet.
OrbitNext(pos, heading) ==
    LET sense == Cross(VSub(pos, planet_pos), heading)
        angle == angle_to(VSub(pos, planet_pos))
        snapped == 90 * Div(angle, 90)
    IN  IF sense = 0 THEN {}
        ELSE IF sense > 0 THEN {PointAt(WrapDiff(snapped - 90))}
        ELSE {PointAt(WrapDiff(snapped + 90))}

\* The point just inside the planet's surface on the bearing of p
Below(p) ==
    LET d == VSub(p, planet_pos)
    IN  VAdd(planet_pos, VDiv(VScale(planet_radius - 1, d), Length(d)))

\* Where a rocket leaves its orbit to: out of the window next to pos, or into
\* the planet on the bearing of the quarter turn it was about to make.
Departures(pos, heading) ==
    (CASE pos = PointE -> {OffRight}
       [] pos = PointS -> {OffBottom}
       [] pos = PointW -> {OffLeft}
       [] pos = PointN -> {}
       [] OTHER -> IF heading[2] < 0 THEN {OffTop} ELSE {})
    \cup (IF OrbitNext(pos, heading) = {} THEN {Dive}
          ELSE {Below(p) : p \in OrbitNext(pos, heading)})

\* The positions one integration step can lead to from pos.  The acceleration
\* is zero at the planet's centre (lines 59-60), so a rocket at rest there
\* stays there.
SampleStep(pos, heading) ==
    IF pos = planet_pos /\ heading = <<0, 0>> THEN {pos}
    ELSE OrbitNext(pos, heading) \cup Departures(pos, heading)

\* rk4_update(pos, vel, dt): the set of (new_pos, new_vel) results; the new
\* velocity is the one that carried the rocket from pos to new_pos in dt.
rk4_update(pos, vel) ==
    { <<p, VScale(DT_DEN, VSub(p, pos))>> : p \in SampleStep(pos, vel) }

NoEnergies == [t |-> <<>>, kin |-> <<>>, pot |-> <<>>, mech |-> <<>>]

RKRocket(pos, vel) ==
    [kind |-> "RK", pos |-> pos, vel |-> vel, trail |-> <<>>,
     prev_angle |-> angle_to(VSub(pos, planet_pos)), total_angle |-> 0,
     status |-> "In-Orbit", time |-> 0, energies |-> NoEnergies,
     speed |-> Length(vel), acc |-> gravitational_acceleration(pos)]

VerletRocket(pos, vel) ==
    [kind |-> "Verlet", pos |-> pos,
     prev_pos |-> VAdd(VSub(pos, VDiv(vel, DT_DEN)),
                       VDiv(gravitational_acceleration(pos), 2 * DT_DEN * DT_DEN)),
     trail |-> <<>>,
     prev_angle |-> angle_to(VSub(pos, planet_pos)), total_angle |-> 0,
     status |-> "In-Orbit", time |-> 0, energies |-> NoEnergies,
     speed |-> Length(vel), acc |-> gravitational_acceleration(pos)]

\* update(), had it left out of the trail the positions within 50 pixels of
\* the launch position
Record_gated(rocket, new_pos, v) ==
    LET angle == angle_to(VSub(new_pos, planet_pos))
        diff == WrapDiff(angle - rocket.prev_angle)
        time == rocket.time + 1
        speed == Length(v)
        r == Length(VSub(new_pos, planet_pos))
        kin == (speed * speed) \div 2
        \* -GM / r has no value at r = 0: see UpdateRaises
        pot == IF r = 0 THEN 0 ELSE -(GM \div r)
        mech == kin + pot
    IN  [rocket EXCEPT
            !.pos = new_pos,
            !.trail = IF Length2(VSub(new_pos, launch_pos)) > 50 * 50
                      THEN Append(@, new_pos) ELSE @,
            !.total_angle = @ + diff,
            !.prev_angle = angle,
            !.time = time,
            !.speed = speed,
            !.acc = gravitational_acceleration(new_pos),
            !.energies = [t |-> Append(@.t, time), kin |-> Append(@.kin, kin),
                          pot |-> Append(@.pot, pot), mech |-> Append(@.mech, mech)]]

\* Lines 107-122 and 153-168: what update() records once pos (and the
\* velocity v the energies are computed from) are known.
Record(rocket, new_pos, v) ==
    LET angle == angle_to(VSub(new_pos, planet_pos))
        diff == WrapDiff(angle - rocket.prev_angle)
        time == rocket.time + 1
        speed == Length(v)
        r == Length(VSub(new_pos, planet_pos))
        kin == (speed * speed) \div 2
        \* -GM / r has no value at r = 0: see UpdateRaises
        pot == IF r = 0 THEN 0 ELSE -(GM \div r)
        mech == kin + pot
    IN  [rocket EXCEPT
            !.pos = new_pos,
            !.trail = Append(@, new_pos),
            !.total_angle = @ + diff,
            !.prev_angle = angle,
            !.time = time,
            !.speed = speed,
            !.acc = gravitational_acceleration(new_pos),
            !.energies = [t |-> Append(@.t, time), kin |-> Append(@.kin, kin),
                          pot |-> Append(@.pot, pot), mech |-> Append(@.mech, mech)]]

\* RKRocket.update: the set of rockets it can leave behind
RKRocket_update(rocket) ==
    { [Record(rocket, pv[1], pv[2]) EXCEPT !.vel = pv[2]] :
        pv \in rk4_update(rocket.pos, rocket.vel) }

\* VerletRocket.update
VerletRocket_update(rocket) ==
    { [Record(rocket, new_pos,
              VScale(DT_DEN, VDiv(VSub(new_pos, rocket.prev_pos), 2)))
          EXCEPT !.prev_pos = rocket.pos] :
        new_pos \in SampleStep(rocket.pos, VSub(rocket.pos, rocket.prev_pos)) }

\* Lines 115-117 and 161-163: pot = -GM / r raises ZeroDivisionError when the
\* update leaves the rocket at r = 0
UpdateRaises(rocket) == Length(VSub(rocket.pos, planet_pos)) = 0

revolutions(rocket) == Abs(rocket.total_angle) \div 360

InBounds_launch(pos) ==
    /\ 0 <= pos[1] /\ pos[1] <= WIDTH_launch
    /\ 0 <= pos[2] /\ pos[2] <= HEIGHT_launch

HitsPlanet(pos) == Length2(VSub(pos, planet_pos)) < planet_radius * planet_radius

\* A status check that puts a rocket that was lost or collided back in orbit
StatusCheck_restoring(rocket) ==
    IF ~InBounds_launch(rocket.pos) /\ rocket.status = "In-Orbit" THEN "Lost"
    ELSE IF HitsPlanet(rocket.pos) /\ rocket.status = "In-Orbit" THEN "Collided"
    ELSE "In-Orbit"

\* Lines 314-318: the status one rocket leaves the status checks with
StatusCheck(rocket) ==
    IF rocket.status = "In-Orbit"
    THEN IF ~InBounds_launch(rocket.pos) THEN "Lost"
         ELSE IF HitsPlanet(rocket.pos) THEN "Collided"
         ELSE "In-Orbit"
    ELSE rocket.status

\* A win check that asks for more than REVOLUTIONS_TO_WIN revolutions
ReachesWin_later(rocket) ==
    /\ rocket.status = "In-Orbit"
    /\ InBounds_launch(rocket.pos)
    /\ ~HitsPlanet(rocket.pos)
    /\ revolutions(rocket) > REVOLUTIONS_TO_WIN

\* Lines 314-321: whether the status checks declare a win for this rocket
ReachesWin(rocket) ==
    /\ rocket.status = "In-Orbit"
    /\ InBounds_launch(rocket.pos)
    /\ ~HitsPlanet(rocket.pos)
    /\ revolutions(rocket) >= REVOLUTIONS_TO_WIN

(***************************************************************************)
(* Rocket game: events and frames                                          *)
(***************************************************************************)
MousePositions_launch ==
    { launch_pos, VAdd(launch_pos, <<200, 0>>), VAdd(launch_pos, <<-200, 0>>),
      VAdd(launch_pos, <<0, -200>>) }

\* No call of a gravity function is being followed
\* The event types a subscription may name, and the subscriptions
EM_Types == {"QUIT", "KEYDOWN"}
EM_Subs == {"s1", "s2"}
NOEVENT == [type |-> "NOEVENT", seq |-> 0]

\* Lines 109-126 and 24-32: a manager with no subscription, and subscriptions
\* that are inactive and name no event; process_events is not running
InitEM ==
    /\ subscriptions = <<>>
    /\ subscriptions_lock = "free"
    /\ em_running = FALSE
    /\ active = [s \in EM_Subs |-> FALSE]
    /\ event_list = [s \in EM_Subs |-> {}]
    /\ pygame_queue = <<>>
    /\ pe = [pc |-> "idle", event |-> NOEVENT, i |-> 0]
    /\ got = [s \in EM_Subs |-> <<>>]
    /\ get_raised = <<>>

\* main() has not been called
InitMainIdle ==
    /\ main_pc = "idle"
    /\ main_exc = <<>>
    /\ game_pc = "idle"
    /\ display = "none"
    /\ cancel_requested = FALSE
    /\ exit_status = <<>>

InitLib == gravity_call = <<>> /\ InitEM /\ InitMainIdle

InitRocket ==
    /\ show_instructions = TRUE
    /\ launch_mode = TRUE
    /\ launched = FALSE
    /\ game_over = FALSE
    /\ win = FALSE
    /\ rkrocket = None
    /\ vrocket = None
    /\ launch_vector = <<0, 0>>

Playing(g) == game = g /\ running = "running"

\* Lines 206-211: the instructions screen ends on any key or click
DismissInstructions ==
    /\ Playing("rocket") /\ show_instructions
    /\ show_instructions' = FALSE
    /\ UNCHANGED <<game, libVars, running, launch_mode, launched, game_over, win,
                   rkrocket, vrocket, launch_vector, lagrangeVars, orbitVars>>

\* Lines 207-209 and 235-237: pygame.QUIT
Quit_launch ==
    /\ Playing("rocket")
    /\ running' = "exited"
    /\ UNCHANGED <<game, libVars, rocketVars, lagrangeVars, orbitVars>>

\* Lines 239-248: KEYDOWN
KeyDown_launch(key) ==
    /\ Playing("rocket") /\ ~show_instructions
    /\ IF key = "K_r"
       THEN /\ launch_mode' = TRUE
            /\ launched' = FALSE
            /\ game_over' = FALSE
            /\ win' = FALSE
            /\ rkrocket' = None
            /\ vrocket' = None
       ELSE UNCHANGED <<launch_mode, launched, game_over, win, rkrocket, vrocket>>
    /\ UNCHANGED <<game, libVars, running, show_instructions, launch_vector, lagrangeVars, orbitVars>>

\* Lines 254-257: MOUSEMOTION
MouseMotion_launch(pos) ==
    /\ Playing("rocket") /\ ~show_instructions
    /\ launch_vector' = IF launch_mode THEN VSub(pos, launch_pos) ELSE launch_vector
    /\ UNCHANGED <<game, libVars, running, show_instructions, launch_mode, launched,
                   game_over, win, rkrocket, vrocket, lagrangeVars, orbitVars>>

\* Lines 250-263: MOUSEBUTTONDOWN
MouseButtonDown_launch(button) ==
    /\ Playing("rocket") /\ ~show_instructions
    /\ IF launch_mode /\ button = 1
       THEN LET vel == VDiv(launch_vector, SPEED_FACTOR_DEN)
            IN  /\ rkrocket' = RKRocket(launch_pos, vel)
                /\ vrocket' = VerletRocket(launch_pos, vel)
                /\ launch_mode' = FALSE
                /\ launched' = TRUE
       ELSE UNCHANGED <<rkrocket, vrocket, launch_mode, launched>>
    /\ UNCHANGED <<game, libVars, running, show_instructions, game_over, win, launch_vector,
                   lagrangeVars, orbitVars>>

\* A frame that advances a rocket whatever its status
PhysicsUpdate_always(rocket, advanced) == advanced

\* Lines 277-280: a rocket is advanced only while it is "In-Orbit"
PhysicsUpdate(rocket, advanced) ==
    IF rocket.status = "In-Orbit" THEN advanced ELSE {rocket}

\* Lines 276-325: the frame body while the rockets fly.  An update that
\* raises ends the program.
Simulate_launch ==
    \E rk \in PhysicsUpdate(rkrocket, RKRocket_update(rkrocket)),
       v \in PhysicsUpdate(vrocket, VerletRocket_update(vrocket)) :
        LET rk_status == StatusCheck(rk)
            v_status == StatusCheck(v)
            won == ReachesWin(rk) \/ ReachesWin(v)
            both_down == rk_status # "In-Orbit" /\ v_status # "In-Orbit"
        IN  IF \/ rkrocket.status = "In-Orbit" /\ UpdateRaises(rk)
               \/ vrocket.status = "In-Orbit" /\ UpdateRaises(v)
            THEN /\ running' = "crashed"
                 /\ UNCHANGED <<rkrocket, vrocket, game_over, win>>
            ELSE /\ rkrocket' = [rk EXCEPT !.status = rk_status]
                 /\ vrocket' = [v EXCEPT !.status = v_status]
                 /\ game_over' = (won \/ both_down)
                 /\ win' = IF both_down THEN FALSE ELSE IF won THEN TRUE ELSE win
                 /\ UNCHANGED running

\* Lines 265-452: one pass of the frame body after the events
Frame_launch ==
    /\ Playing("rocket") /\ ~show_instructions
    /\ IF launch_mode
       THEN UNCHANGED <<running, game_over, win, rkrocket, vrocket>>
       ELSE IF launched /\ ~game_over
       THEN Simulate_launch
       ELSE IF game_over /\ win
       \* line 389 reads show_graphs, a local of main no line has assigned yet
       THEN running' = "crashed" /\ UNCHANGED <<game_over, win, rkrocket, vrocket>>
       ELSE UNCHANGED <<running, game_over, win, rkrocket, vrocket>>
    /\ UNCHANGED <<game, libVars, show_instructions, launch_mode, launched, launch_vector,
                   lagrangeVars, orbitVars>>

NextRocket ==
    \/ DismissInstructions
    \/ Quit_launch
    \/ \E key \in {"K_r", "K_SPACE"} : KeyDown_launch(key)
    \/ \E pos \in MousePositions_launch : MouseMotion_launch(pos)
    \/ \E button \in {1, 3} : MouseButtonDown_launch(button)
    \/ Frame_launch

(***************************************************************************)
(* Lagrange game: constants                                                *)
(***************************************************************************)
\* G = 0.1 = 1 / G_DEN
G_DEN == 10
M_large == 100000
M_small == 10
radius_large == 10
radius_small == 10
radius_rocket == 1
\* infoObject.current_w, infoObject.current_h: the display the game runs on
WIDTH_lagrange == 1280
HEIGHT_lagrange == 720
trail_lifetime == 1500
OFFSCREEN_LIMIT == 300
WIN_REAL_MS == 20000
WAITING_FOR_CLICK == 0
SIMULATING == 1
GAME_OVER == 2
\* d of reset_game: the separation of the two bodies
d_bodies == 420

\* dt = sub_dt * time_scale in whole seconds.  The model samples the orbits
\* every quarter period of the two bodies, so one sub-step spans a quarter of
\* orbital_period = 2 * pi / omega, about 540 s.
LG_DT == 135
\* One pass of the main loop advances the orbits by a sixtieth of a period
\* in SUBSTEPS = 80 sub-steps (lines 27, 161-165, 378); the model follows
\* this many sampled sub-steps in a pass.
LG_SUBSTEPS == 4
\* The simulated time up to which the model follows one program run.
LG_MAX_SIM_TIME == 2160
\* The clock value up to which the model follows the real-time clock.
LG_MAX_TICKS == 20000

COM == <<WIDTH_lagrange \div 2, HEIGHT_lagrange \div 2>>

\* Lines 115-119: where reset_game puts the two bodies
total_mass == M_large + M_small
offset_large == (M_small * d_bodies) \div total_mass
offset_small == (M_large * d_bodies) \div total_mass
pos_large_0 == VSub(COM, <<offset_large, 0>>)
pos_small_0 == VAdd(COM, <<offset_small, 0>>)

\* A quarter turn about the centre of mass, in the sense
\* Vector2(-r.y, r.x) of the circular-orbit velocities (lines 128, 134, 264).
QuarterTurn(pos) ==
    LET r == VSub(pos, COM) IN VAdd(COM, <<-r[2], r[1]>>)

\* Lines 124-138 and 157-158: the half-step velocities reset_game sets, in
\* pixels per sub-step: the displacement of the first quarter turn.
vel_large_0 == VSub(QuarterTurn(pos_large_0), pos_large_0)
vel_small_0 == VSub(QuarterTurn(pos_small_0), pos_small_0)

\* Lines 140-154: L1..L5 (the closed forms, rounded to whole pixels)
lagrange_points ==
    << VAdd(COM, <<391, 0>>), VAdd(COM, <<449, 0>>), VAdd(COM, <<-429, 0>>),
       VAdd(COM, <<210, 364>>), VAdd(COM, <<210, -364>>) >>

\* Line 259: idx = int(label[1]) - 1, counted from 1 here
ButtonIndex(label) ==
    CASE label = "L1" -> 1 [] label = "L2" -> 2 [] label = "L3" -> 3
      [] label = "L4" -> 4 [] label = "L5" -> 5

\* An optional value: <<>> is Python's None, <<v>> holds the number v.
\* An optional vector is <<>> or the vector <<x, y>> itself.
Nothing == <<>>
Some(v) == <<v>>
Get(opt) == opt[1]

OffScreen_lagrange(pos) ==
    \/ pos[1] < 0 \/ pos[1] > WIDTH_lagrange
    \/ pos[2] < 0 \/ pos[2] > HEIGHT_lagrange

\* Lines 431-433
Collides_lagrange(pos, large, small) ==
    \/ Length2(VSub(pos, large)) < (radius_large + radius_rocket) * (radius_large + radius_rocket)
    \/ Length2(VSub(pos, small)) < (radius_small + radius_rocket) * (radius_small + radius_rocket)

\* A point far outside the window, where a rocket that escaped the two
\* bodies ends up.
FarAway == VSub(COM, <<2000, 0>>)

\* The positions one leapfrog sub-step can leave the rocket at, given where
\* the sub-step left the two bodies: a quarter turn further on its orbit,
\* down on the planet, down on the moon, or away from both.
RocketStep(pos, large, small) ==
    IF pos = FarAway THEN {FarAway}
    ELSE {QuarterTurn(pos), VAdd(large, <<radius_large, 0>>),
          VAdd(small, <<0, radius_small>>), FarAway}

\* math.atan2((rocket_pos - pos_large).y, (rocket_pos - pos_large).x), degrees
AngleAbout(pos, large) == Atan2Deg(pos[2] - large[2], pos[1] - large[1])

\* Lines 262-268 and 287-293: the circular-orbit velocity of a spawned rocket,
\* in pixels per sub-step
SpawnVelocity(pos) ==
    IF Length(VSub(pos, COM)) # 0 THEN VSub(QuarterTurn(pos), pos) ELSE <<0, 0>>

\* Lines 443-453: the text of a win
WinText(times) ==
    IF times # <<>> THEN "You Win! Period standard deviation"
    ELSE "You Win! Not enough data for period standard deviation."

(***************************************************************************)
(* Lagrange game: events and frames                                        *)
(***************************************************************************)
\* Where the player clicks outside the UI: on the centre of mass, and above it
ClickPositions_lagrange == {COM, VSub(COM, <<0, 160>>)}

\* Lines 57-79 and 102-191: the globals after the module-level reset_game()
InitLagrange ==
    /\ game_state = WAITING_FOR_CLICK
    /\ show_lagrange = FALSE
    /\ spawn_point = Nothing
    /\ rocket_trail = <<>>
    /\ rocket_angle_total = 0
    /\ rocket_angle_prev = Nothing
    /\ rocket_revolutions = 0
    /\ revolution_times = <<>>
    /\ last_revolution_time = Nothing
    /\ rocket_offscreen_time = 0
    /\ real_start_time = Nothing
    /\ pos_large = pos_large_0
    /\ pos_small = pos_small_0
    /\ vel_large_half = vel_large_0
    /\ vel_small_half = vel_small_0
    /\ sim_time = 0
    /\ rocket_pos = Nothing
    /\ rocket_vel = Nothing
    /\ rocket_vel_half = Nothing
    /\ result_text = ""
    /\ substep = 0
    /\ ticks = 0

\* The event loop of a pass runs while substep = 0; after the exit button's
\* break ("closing") it handles no further event.
HandlesEvents(g) ==
    /\ game = g
    /\ running \in {"running", "quit"}

\* Lines 102-188: reset_game.  spawn_point is missing from its global
\* statements, so line 172 binds a local and the global keeps its value.
reset_game_lagrange ==
    /\ show_lagrange' = FALSE
    /\ pos_large' = pos_large_0
    /\ pos_small' = pos_small_0
    /\ vel_large_half' = vel_large_0
    /\ vel_small_half' = vel_small_0
    /\ sim_time' = 0
    /\ rocket_pos' = Nothing
    /\ rocket_vel' = Nothing
    /\ rocket_vel_half' = Nothing
    /\ rocket_trail' = <<>>
    /\ spawn_point' = spawn_point
    /\ rocket_angle_total' = 0
    /\ rocket_angle_prev' = Nothing
    /\ rocket_revolutions' = 0
    /\ revolution_times' = <<>>
    /\ last_revolution_time' = Nothing
    /\ rocket_offscreen_time' = 0
    /\ real_start_time' = Nothing
    /\ game_state' = WAITING_FOR_CLICK
    /\ result_text' = ""

\* Lines 260-280 and 285-305: a rocket appears at pos
Spawn(pos) ==
    /\ rocket_pos' = pos
    /\ spawn_point' = pos
    /\ rocket_vel' = SpawnVelocity(pos)
    /\ rocket_vel_half' = SpawnVelocity(pos)
    /\ rocket_trail' = << <<sim_time, pos>> >>
    /\ rocket_angle_prev' = Some(AngleAbout(pos, pos_large))
    /\ rocket_angle_total' = 0
    /\ rocket_revolutions' = 0
    /\ revolution_times' = <<>>
    /\ last_revolution_time' = Nothing
    /\ rocket_offscreen_time' = 0
    /\ real_start_time' = Some(ticks)
    /\ game_state' = SIMULATING

\* Lines 244-245: pygame.QUIT
Quit_lagrange ==
    /\ HandlesEvents("lagrange") /\ substep = 0
    /\ running' = "quit"
    /\ UNCHANGED <<game, libVars, rocketVars, orbitVars, lagrangeVars>>

\* Lines 248-250: a click on the exit button
ClickExit_lagrange ==
    /\ HandlesEvents("lagrange") /\ substep = 0
    /\ running' = "closing"
    /\ UNCHANGED <<game, libVars, rocketVars, orbitVars, lagrangeVars>>

\* Lines 253-281: a click on one of the bottom UI buttons
ClickButton_lagrange(label) ==
    /\ HandlesEvents("lagrange") /\ substep = 0
    /\ IF label = "LP"
       THEN /\ show_lagrange' = ~show_lagrange
            /\ UNCHANGED <<game_state, probeVars, revVars, rocket_offscreen_time,
                           real_start_time>>
       ELSE /\ Spawn(lagrange_points[ButtonIndex(label)])
            /\ UNCHANGED show_lagrange
    /\ UNCHANGED <<game, libVars, running, rocketVars, orbitVars, bodyVars, sim_time, result_text,
                   substep, ticks>>

\* Lines 283-305: a click outside the UI
ClickFree_lagrange(pos) ==
    /\ HandlesEvents("lagrange") /\ substep = 0
    /\ IF game_state = WAITING_FOR_CLICK
       THEN Spawn(pos)
       ELSE UNCHANGED <<game_state, probeVars, revVars, rocket_offscreen_time,
                        real_start_time>>
    /\ UNCHANGED <<game, libVars, running, rocketVars, orbitVars, show_lagrange, bodyVars, sim_time,
                   result_text, substep, ticks>>

\* Lines 307-309: KEYDOWN
KeyDown_lagrange(key) ==
    /\ HandlesEvents("lagrange") /\ substep = 0
    /\ IF game_state = GAME_OVER /\ key = "K_r"
       THEN reset_game_lagrange
       ELSE UNCHANGED <<game_state, show_lagrange, bodyVars, probeVars, revVars,
                        rocket_offscreen_time, real_start_time, sim_time,
                        result_text>>
    /\ UNCHANGED <<game, libVars, running, rocketVars, orbitVars, substep, ticks>>

RECURSIVE Prune(_, _)
\* Lines 345-347: the trail entries not older than trail_lifetime
Prune(trail, now) ==
    IF trail = <<>> THEN <<>>
    ELSE IF now - Head(trail)[1] <= trail_lifetime
         THEN <<Head(trail)>> \o Prune(Tail(trail), now)
         ELSE Prune(Tail(trail), now)

\* Lines 311-377: the drawing half of a pass, up to the SUBSTEPS loop.  The
\* real-time clock pygame.time.get_ticks() moves on between two passes.
Render_lagrange ==
    /\ game = "lagrange" /\ substep = 0
    /\ running \in {"running", "quit", "closing"}
    /\ \E elapsed \in {0, WIN_REAL_MS} :
        /\ ticks + elapsed <= LG_MAX_TICKS
        /\ ticks' = ticks + elapsed
    /\ rocket_trail' = IF rocket_pos # Nothing /\ rocket_vel_half # Nothing
                       THEN Prune(rocket_trail, sim_time) ELSE rocket_trail
    /\ IF game_state = SIMULATING
       THEN substep' = 1 /\ UNCHANGED running
       ELSE /\ substep' = 0
            /\ running' = IF running = "running" THEN "running" ELSE "exited"
    /\ UNCHANGED <<game, libVars, rocketVars, orbitVars, game_state, show_lagrange, bodyVars,
                   rocket_pos, rocket_vel, rocket_vel_half, spawn_point, revVars,
                   rocket_offscreen_time, real_start_time, sim_time, result_text>>

\* A verdict that looks at the real-time clock before it looks for a collision
Verdict_lagrange_winfirst(offscreen_time, pos, large, small, start, now, times) ==
    IF offscreen_time > OFFSCREEN_LIMIT
    THEN "You Lose! Your rocket was lost to space."
    ELSE IF start # Nothing /\ now - Get(start) >= WIN_REAL_MS
    THEN WinText(times)
    ELSE IF Collides_lagrange(pos, large, small)
    THEN "Game Over! Rocket collided with a body."
    ELSE ""

\* A verdict that gives the rocket up on its first sub-step off the screen
Verdict_lagrange_nograce(offscreen_time, pos, large, small, start, now, times) ==
    IF offscreen_time > 0
    THEN "You Lose! Your rocket was lost to space."
    ELSE IF Collides_lagrange(pos, large, small)
    THEN "Game Over! Rocket collided with a body."
    ELSE IF start # Nothing /\ now - Get(start) >= WIN_REAL_MS
    THEN WinText(times)
    ELSE ""

\* Lines 425-454: how one pass of the SUBSTEPS loop ends, given the rocket's
\* off-screen time, its position, the bodies and the clock: the new
\* game_state and result_text, or "" when the loop goes on.
Verdict_lagrange(offscreen_time, pos, large, small, start, now, times) ==
    IF offscreen_time > OFFSCREEN_LIMIT
    THEN "You Lose! Your rocket was lost to space."
    ELSE IF Collides_lagrange(pos, large, small)
    THEN "Game Over! Rocket collided with a body."
    ELSE IF start # Nothing /\ now - Get(start) >= WIN_REAL_MS
    THEN WinText(times)
    ELSE ""

\* Lines 378-454: one pass of the SUBSTEPS loop
Substep_lagrange ==
    /\ game = "lagrange" /\ substep >= 1
    /\ running \in {"running", "quit", "closing"}
    /\ sim_time < LG_MAX_SIM_TIME
    /\ \E new_rocket \in RocketStep(rocket_pos, pos_large, QuarterTurn(pos_small)) :
        LET new_large == pos_large
            new_small == QuarterTurn(pos_small)
            now == sim_time + LG_DT
            current_angle == AngleAbout(new_rocket, new_large)
            raw_delta == Abs(current_angle - Get(rocket_angle_prev))
            delta_angle == IF raw_delta > 180 THEN 360 - raw_delta ELSE raw_delta
            tracked == rocket_angle_prev # Nothing
            angle_total == IF tracked THEN rocket_angle_total + delta_angle
                           ELSE rocket_angle_total
            new_rev_count == angle_total \div 360
            more == tracked /\ new_rev_count > rocket_revolutions
            times == IF more /\ last_revolution_time # Nothing
                     THEN Append(revolution_times, now - Get(last_revolution_time))
                     ELSE revolution_times
            offscreen == IF OffScreen_lagrange(new_rocket)
                         THEN rocket_offscreen_time + LG_DT ELSE 0
            verdict == Verdict_lagrange(offscreen, new_rocket, new_large, new_small,
                                        real_start_time, ticks, times)
            last_pass == verdict # "" \/ substep = LG_SUBSTEPS
        IN  /\ pos_large' = new_large
            /\ vel_large_half' = VSub(new_large, pos_large)
            /\ pos_small' = new_small
            /\ vel_small_half' = VSub(new_small, pos_small)
            /\ rocket_pos' = new_rocket
            /\ rocket_vel_half' = VSub(new_rocket, rocket_pos)
            /\ rocket_trail' = Append(rocket_trail, <<sim_time, new_rocket>>)
            /\ sim_time' = now
            /\ rocket_angle_total' = angle_total
            /\ rocket_revolutions' = IF tracked THEN new_rev_count ELSE rocket_revolutions
            /\ revolution_times' = times
            /\ last_revolution_time' = IF more THEN Some(now) ELSE last_revolution_time
            /\ rocket_angle_prev' = Some(current_angle)
            /\ rocket_offscreen_time' = offscreen
            /\ game_state' = IF verdict # "" THEN GAME_OVER ELSE game_state
            /\ result_text' = IF verdict # "" THEN verdict ELSE result_text
            /\ substep' = IF last_pass THEN 0 ELSE substep + 1
            /\ running' = IF last_pass /\ running # "running" THEN "exited" ELSE running
    /\ UNCHANGED <<game, libVars, rocketVars, orbitVars, show_lagrange, spawn_point, rocket_vel,
                   real_start_time, ticks>>

NextLagrange ==
    \/ Quit_lagrange
    \/ ClickExit_lagrange
    \/ \E label \in {"LP", "L1", "L4"} : ClickButton_lagrange(label)
    \/ \E pos \in ClickPositions_lagrange : ClickFree_lagrange(pos)
    \/ \E key \in {"K_r", "K_SPACE"} : KeyDown_lagrange(key)
    \/ Render_lagrange
    \/ Substep_lagrange

(***************************************************************************)
(* Asteroid game (orbit.py)                                                *)
(***************************************************************************)
WIDTH_orbit == 1280
HEIGHT_orbit == 720
\* DT = 0.02 = 1 / DT_DEN_orbit; simulation_time counts multiples of DT
DT_DEN_orbit == 50
G_orbit == 2000
CANON_POS == <<100, HEIGHT_orbit - 100>>
EDGE_MARGIN == 100
ASTEROID_BUFFER == 100
PICTURE_MARGIN == 100
\* satellite_img is scaled to (40, 40)
satellite_width == 40
satellite_radius == satellite_width \div 2
\* speed of the launch handler
LAUNCH_SPEED == 150
\* "Start tracking the path after 50 pixels from launch."
PATH_MIN_DISTANCE == 50
\* The two ends of random.randint(80, 150)
SIZE_MIN == 80
SIZE_MAX == 150
Sizes == {SIZE_MIN, SIZE_MAX}

\* Lines 135-138: the draws of (x, y) the model follows: three corners of the
\* box random.randint draws from
Candidates(size) ==
    LET x_lo == WIDTH_orbit \div 2 + size \div 2 + EDGE_MARGIN
        x_hi == WIDTH_orbit - EDGE_MARGIN - size \div 2
        y_lo == EDGE_MARGIN + size \div 2
        y_hi == HEIGHT_orbit - EDGE_MARGIN - size \div 2
    IN  {<<x_lo, y_lo>>, <<x_hi, y_lo>>, <<x_lo, y_hi>>}

\* Lines 139-154: whether an attempt (x, y) is returned at once.  The loop
\* over the existing asteroids breaks at the first one that overlaps or is
\* too far.
RECURSIVE Accepted(_, _, _)
Accepted(pos, size, existing) ==
    IF existing = <<>> THEN TRUE
    ELSE LET a == Head(existing)
             required_separation ==
                 (size + a.size) \div 2 + ASTEROID_BUFFER + satellite_width
             dist2 == Length2(VSub(pos, a.pos))
         IN  IF dist2 < required_separation * required_separation THEN FALSE
             ELSE IF dist2 > (10 * satellite_width) * (10 * satellite_width)
             THEN FALSE
             ELSE Accepted(pos, size, Tail(existing))

\* Lines 132-157: the positions get_random_position_for_asteroid can return:
\* an accepted attempt, or after max_attempts rejected attempts the last one.
get_random_position_for_asteroid(size, existing) ==
    {pos \in Candidates(size) : Accepted(pos, size, existing)}
        \cup {pos \in Candidates(size) : ~Accepted(pos, size, existing)}

Asteroid(pos, size) ==
    [pos |-> pos, mass |-> (size * size) \div 10, pictured |-> FALSE, size |-> size]

\* Lines 161-179: the lists init_asteroids can return
init_asteroids ==
    {<<Asteroid(p1, s1), Asteroid(p2, s2)>> :
        <<s1, p1, s2, p2>> \in
            {q \in Sizes \X (Candidates(SIZE_MIN) \cup Candidates(SIZE_MAX))
                   \X Sizes \X (Candidates(SIZE_MIN) \cup Candidates(SIZE_MAX)) :
                /\ q[2] \in get_random_position_for_asteroid(q[1], <<>>)
                /\ q[4] \in get_random_position_for_asteroid(
                               q[3], <<Asteroid(q[2], q[1])>>)}}

RECURSIVE acceleration(_, _)
\* Lines 33-47
acceleration(state, asts) ==
    IF asts = <<>> THEN <<0, 0>>
    ELSE LET a0 == Head(asts)
             dx == a0.pos[1] - state[1]
             dy == a0.pos[2] - state[2]
             raw == dx * dx + dy * dy
             r_sq == IF raw < 1 THEN 1 ELSE raw
             r == ISqrt(r_sq)
             a == (G_orbit * a0.mass) \div r_sq
         IN  VAdd(<<Div(a * dx, r), Div(a * dy, r)>>, acceleration(state, Tail(asts)))

\* Where the model samples the satellite's flight: at the canon, within
\* PATH_MIN_DISTANCE of it, in the open field, beside each asteroid (inside
\* its picture threshold), on the right edge of the screen, and then where a
\* flight ends: inside the combined radii of an asteroid but outside the
\* asteroid's own radius, or off the screen.
NearCanon == VAdd(CANON_POS, <<30, -40>>)
MidField == VAdd(CANON_POS, <<300, -200>>)
Beside(a) == VSub(a.pos, <<satellite_radius + a.size \div 2 + PICTURE_MARGIN \div 2, 0>>)
Touching(a) == VSub(a.pos, <<a.size \div 2 + satellite_radius \div 2, 0>>)
EdgeRight == <<WIDTH_orbit, HEIGHT_orbit \div 2>>
OffRight_orbit == <<WIDTH_orbit + 10, HEIGHT_orbit \div 2>>
OffTop_orbit == <<WIDTH_orbit \div 2, -10>>

Course(asts) ==
    << CANON_POS, NearCanon, MidField, Beside(asts[1]), Beside(asts[2]), EdgeRight,
       Touching(asts[1]), Touching(asts[2]), OffRight_orbit, OffTop_orbit >>

\* How far along its course a satellite at pos is
Stage(pos, asts) ==
    LET at == {i \in DOMAIN Course(asts) : Course(asts)[i] = pos}
    IN  CHOOSE i \in at : \A j \in at : j <= i

\* Lines 50-66: the states rk4_step can return: the satellite moves on along
\* its course, with the displacement of the step as its velocity.
rk4_step(state, asts) ==
    LET pos == <<state[1], state[2]>>
    IN  { <<p[1], p[2], p[1] - pos[1], p[2] - pos[2]>> :
            p \in {Course(asts)[j] : j \in {i \in DOMAIN Course(asts) : i > Stage(pos, asts)}} }

RECURSIVE PotentialEnergy(_, _)
\* Lines 356-361
PotentialEnergy(pos, asts) ==
    IF asts = <<>> THEN 0
    ELSE LET d == Length(VSub(pos, Head(asts).pos))
             r == IF d > 1 THEN d ELSE 1
         IN  PotentialEnergy(pos, Tail(asts)) - (G_orbit * Head(asts).mass) \div r

\* Lines 365-382: the loop over the asteroids from the i-th on.  st holds the
\* asteroids, the picture count, and the message of a collision ("" if none).
RECURSIVE CheckAsteroids(_, _, _)
CheckAsteroids(pos, st, i) ==
    IF i > Len(st.asteroids) THEN st
    ELSE LET a == st.asteroids[i]
             asteroid_radius == a.size \div 2
             dist2 == Length2(VSub(pos, a.pos))
             collision == satellite_radius + asteroid_radius
             picture_threshold == satellite_radius + asteroid_radius + PICTURE_MARGIN
         IN  IF dist2 < collision * collision
             THEN [st EXCEPT !.message = "Collision! You lost.", !.finished = TRUE]
             ELSE IF dist2 < picture_threshold * picture_threshold /\ ~a.pictured
             THEN CheckAsteroids(pos,
                      [st EXCEPT !.asteroids[i].pictured = TRUE,
                                 !.count = st.count + 1], i + 1)
             ELSE CheckAsteroids(pos, st, i + 1)

OffScreen_orbit(pos) ==
    \/ pos[1] < 0 \/ pos[1] > WIDTH_orbit
    \/ pos[2] < 0 \/ pos[2] > HEIGHT_orbit

\* The off-screen check, had it not looked at the picture count
CheckOffScreen_lenient(pos, st) ==
    IF OffScreen_orbit(pos)
    THEN [st EXCEPT !.finished = TRUE,
                    !.message = IF st.finished THEN st.message
                                ELSE "You win! All pictures taken."]
    ELSE st

\* Lines 385-393: the off-screen check, after the loop over the asteroids
CheckOffScreen(pos, st) ==
    IF OffScreen_orbit(pos)
    THEN [st EXCEPT !.finished = TRUE,
                    !.message = IF st.finished THEN st.message
                                ELSE IF st.count = Len(st.asteroids)
                                THEN "You win! All pictures taken."
                                ELSE "Game Over! Pictures taken"]
    ELSE st

\* Lines 183-197, with show_instructions() entered (line 242)
InitOrbit ==
    /\ waiting = (game = "asteroid")
    /\ asteroids \in (IF game = "asteroid" THEN init_asteroids ELSE {<<>>})
    /\ satellite_launched = FALSE
    /\ satellite_state = Nothing
    /\ picture_count = 0
    /\ satellite_path = <<>>
    /\ simulation_time = 0
    /\ position_times = <<>>
    /\ accel_data = <<>>
    /\ energy_data = <<>>
    /\ game_finished = FALSE
    /\ final_message = ""

\* Lines 245-257
reset_game_orbit ==
    /\ satellite_launched' = FALSE
    /\ satellite_state' = Nothing
    /\ picture_count' = 0
    /\ asteroids' \in init_asteroids
    /\ game_finished' = FALSE
    /\ final_message' = ""
    /\ satellite_path' = <<>>
    /\ simulation_time' = 0
    /\ position_times' = <<>>
    /\ accel_data' = <<>>
    /\ energy_data' = <<>>

\* Lines 231-238: the instructions screen waits for a key; QUIT leaves the
\* program through sys.exit()
Instructions_orbit(event) ==
    /\ Playing("asteroid") /\ waiting
    /\ IF event = "KEYDOWN"
       THEN waiting' = FALSE /\ UNCHANGED running
       ELSE running' = "exited" /\ UNCHANGED waiting
    /\ UNCHANGED <<game, libVars, rocketVars, lagrangeVars, asteroids, satellite_launched,
                   satellite_state, picture_count, logVars, game_finished,
                   final_message>>

\* The event loop of a pass handles events until the pass goes on to draw
InLoop_orbit ==
    /\ game = "asteroid" /\ ~waiting
    /\ running \in {"running", "quit"}

\* Lines 266-267: pygame.QUIT
Quit_orbit ==
    /\ InLoop_orbit
    /\ running' = "quit"
    /\ UNCHANGED <<game, libVars, rocketVars, lagrangeVars, orbitVars>>

\* A key handler that resets the game whether or not it is finished
KeyDown_orbit_always ==
    /\ InLoop_orbit
    /\ reset_game_orbit
    /\ UNCHANGED <<game, libVars, running, rocketVars, lagrangeVars, waiting>>

\* Lines 268-270: pygame.KEYDOWN
KeyDown_orbit ==
    /\ InLoop_orbit
    /\ IF game_finished
       THEN reset_game_orbit
       ELSE UNCHANGED <<asteroids, satellite_launched, satellite_state,
                        picture_count, logVars, game_finished, final_message>>
    /\ UNCHANGED <<game, libVars, running, rocketVars, lagrangeVars, waiting>>

\* Lines 277-282: the velocity of a launch towards the mouse pointer.
\* math.atan2(0, 0) is 0, so a click on the canon launches to the right.
LaunchVelocity(mouse) ==
    LET d == VSub(mouse, CANON_POS)
    IN  IF d = <<0, 0>> THEN <<LAUNCH_SPEED, 0>>
        ELSE VDiv(VScale(LAUNCH_SPEED, d), Length(d))

\* Where the player clicks
MousePositions_orbit ==
    {CANON_POS, VAdd(CANON_POS, <<300, -400>>), VAdd(CANON_POS, <<400, 0>>)}

\* Lines 271-286: pygame.MOUSEBUTTONDOWN
MouseButtonDown_orbit(mouse) ==
    /\ InLoop_orbit
    /\ IF ~game_finished /\ ~satellite_launched
       THEN /\ satellite_state' = <<CANON_POS[1], CANON_POS[2]>> \o LaunchVelocity(mouse)
            /\ satellite_launched' = TRUE
       ELSE UNCHANGED <<satellite_state, satellite_launched>>
    /\ UNCHANGED <<game, libVars, running, rocketVars, lagrangeVars, waiting, asteroids,
                   picture_count, logVars, game_finished, final_message>>

\* Lines 288-420: the rest of a pass: drawing, and one step of the simulation
\* while the game is active
Frame_orbit ==
    /\ game = "asteroid" /\ ~waiting
    /\ running \in {"running", "quit"}
    /\ running' = IF running = "running" THEN "running" ELSE "exited"
    /\ IF ~game_finished /\ satellite_launched /\ satellite_state # Nothing
       THEN \E new_state \in rk4_step(satellite_state, asteroids) :
            LET now == simulation_time + 1
                pos == <<new_state[1], new_state[2]>>
                acc == acceleration(new_state, asteroids)
                total_accel == Length(acc)
                speed_sq == new_state[3] * new_state[3] + new_state[4] * new_state[4]
                KE == speed_sq \div 2
                PE == PotentialEnergy(pos, asteroids)
                tracked == Length2(VSub(pos, CANON_POS))
                               > PATH_MIN_DISTANCE * PATH_MIN_DISTANCE
                checked == CheckOffScreen(pos,
                               CheckAsteroids(pos,
                                   [asteroids |-> asteroids, count |-> picture_count,
                                    message |-> final_message, finished |-> FALSE], 1))
            IN  /\ simulation_time' = now
                /\ satellite_state' = new_state
                /\ satellite_path' = IF tracked THEN Append(satellite_path, pos)
                                     ELSE satellite_path
                /\ position_times' = IF tracked THEN Append(position_times, now)
                                      ELSE position_times
                /\ accel_data' = Append(accel_data, <<now, total_accel>>)
                /\ energy_data' = Append(energy_data, <<now, KE, PE, KE + PE>>)
                /\ asteroids' = checked.asteroids
                /\ picture_count' = checked.count
                /\ final_message' = checked.message
                /\ game_finished' = checked.finished
       ELSE UNCHANGED <<asteroids, satellite_state, picture_count, logVars,
                        game_finished, final_message>>
    /\ UNCHANGED <<game, libVars, rocketVars, lagrangeVars, waiting, satellite_launched>>

NextOrbit ==
    \/ \E event \in {"KEYDOWN", "QUIT"} : Instructions_orbit(event)
    \/ Quit_orbit
    \/ KeyDown_orbit
    \/ \E mouse \in MousePositions_orbit : MouseButtonDown_orbit(mouse)
    \/ Frame_orbit

(***************************************************************************)
(* Lagrange game: the arithmetic of one sub-step, on the integer lattice   *)
(***************************************************************************)
\* Lines 194-199: G * other_mass / r**2 * r_vec.normalize(), in whole numbers
gravitational_acceleration_lagrange(pos, other_pos, other_mass) ==
    LET r_vec == VSub(other_pos, pos)
        r == Length(r_vec)
    IN  IF r = 0 THEN <<0, 0>>
        ELSE VDiv(VScale(other_mass \div G_DEN, r_vec), r * r * r)

\* Lines 202-205: <<new_pos, new_vel_half>>
leapfrog_update(pos, vel_half, acc, dt) ==
    LET new_vel_half == VAdd(vel_half, VScale(dt, acc))
    IN  <<VAdd(pos, VScale(dt, new_vel_half)), new_vel_half>>

\* One pass of the SUBSTEPS loop in which every acceleration is computed from
\* the positions the bodies had when the pass began
snapshot_substep(b, dt) ==
    LET acc_large == gravitational_acceleration_lagrange(b.pos_large, b.pos_small, M_small)
        large == leapfrog_update(b.pos_large, b.vel_large_half, acc_large, dt)
        acc_small == gravitational_acceleration_lagrange(b.pos_small, b.pos_large, M_large)
        small == leapfrog_update(b.pos_small, b.vel_small_half, acc_small, dt)
        acc_rocket ==
            VAdd(gravitational_acceleration_lagrange(b.rocket_pos, b.pos_large, M_large),
                 gravitational_acceleration_lagrange(b.rocket_pos, b.pos_small, M_small))
        rocket == leapfrog_update(b.rocket_pos, b.rocket_vel_half, acc_rocket, dt)
    IN  [pos_large |-> large[1], vel_large_half |-> large[2],
         pos_small |-> small[1], vel_small_half |-> small[2],
         rocket_pos |-> rocket[1], rocket_vel_half |-> rocket[2]]

\* Lines 379-393: the three bodies after one pass of the SUBSTEPS loop.  Each
\* body is advanced in turn, and the next acceleration is computed from the
\* positions as they then are.
leapfrog_substep(b, dt) ==
    LET acc_large == gravitational_acceleration_lagrange(b.pos_large, b.pos_small, M_small)
        large == leapfrog_update(b.pos_large, b.vel_large_half, acc_large, dt)
        acc_small == gravitational_acceleration_lagrange(b.pos_small, large[1], M_large)
        small == leapfrog_update(b.pos_small, b.vel_small_half, acc_small, dt)
        acc_rocket ==
            VAdd(gravitational_acceleration_lagrange(b.rocket_pos, large[1], M_large),
                 gravitational_acceleration_lagrange(b.rocket_pos, small[1], M_small))
        rocket == leapfrog_update(b.rocket_pos, b.rocket_vel_half, acc_rocket, dt)
    IN  [pos_large |-> large[1], vel_large_half |-> large[2],
         pos_small |-> small[1], vel_small_half |-> small[2],
         rocket_pos |-> rocket[1], rocket_vel_half |-> rocket[2]]

\* The bodies as the module globals hold them
Bodies ==
    [pos_large |-> pos_large, vel_large_half |-> vel_large_half,
     pos_small |-> pos_small, vel_small_half |-> vel_small_half,
     rocket_pos |-> rocket_pos, rocket_vel_half |-> rocket_vel_half]

\* The positions and velocities the arithmetic starts from
SS_Positions == {<<10, 0>>, <<0, 10>>, <<20, 0>>}
SS_RocketPositions == {<<5, 0>>, <<0, 5>>, <<10, 0>>}
SS_Velocities == {<<0, 0>>, <<1, 0>>, <<0, 1>>}

\* Line 148: new_pos = 2 * self.pos - self.prev_pos + a * dt**2
verlet_new_pos(rocket) ==
    VAdd(VSub(VScale(2, rocket.pos), rocket.prev_pos),
         VDiv(gravitational_acceleration(rocket.pos), DT_DEN * DT_DEN))

\* Where and how fast the pair of rockets is constructed: at distances from
\* the planet and with velocities for which the whole-number arithmetic is exact
SS_LaunchPositions == {VAdd(planet_pos, <<50, 0>>), VAdd(planet_pos, <<0, -25>>)}
SS_LaunchVelocities == {<<0, 0>>, <<10, 20>>}

InitSubstep ==
    /\ game = "substep"
    /\ running = "running"
    /\ InitLib
    /\ show_instructions = FALSE
    /\ launch_mode = FALSE
    /\ launched = TRUE
    /\ game_over = FALSE
    /\ win = FALSE
    /\ launch_vector = <<0, 0>>
    /\ \E pos \in SS_LaunchPositions, vel \in SS_LaunchVelocities :
        /\ rkrocket = RKRocket(pos, vel)
        /\ vrocket = VerletRocket(pos, vel)
    /\ InitOrbit
    /\ game_state = SIMULATING
    /\ show_lagrange = FALSE
    /\ rocket_pos \in SS_RocketPositions
    /\ rocket_vel_half \in {<<0, 0>>, <<1, 0>>}
    /\ rocket_vel = rocket_vel_half
    /\ spawn_point = rocket_pos
    /\ rocket_trail = <<>>
    /\ rocket_angle_total = 0
    /\ rocket_angle_prev = Nothing
    /\ rocket_revolutions = 0
    /\ revolution_times = <<>>
    /\ last_revolution_time = Nothing
    /\ rocket_offscreen_time = 0
    /\ real_start_time = Some(0)
    /\ pos_large = <<0, 0>>
    /\ pos_small \in SS_Positions
    /\ vel_large_half \in SS_Velocities
    /\ vel_small_half \in SS_Velocities
    /\ sim_time = 0
    /\ result_text = ""
    /\ substep = 1
    /\ ticks = 0

\* Lines 379-395 with a time step of dt, applied to the bodies drawn
Leapfrog_substep(dt) ==
    /\ game = "substep"
    /\ sim_time = 0
    /\ LET after == leapfrog_substep(Bodies, dt)
       IN  /\ pos_large' = after.pos_large
           /\ vel_large_half' = after.vel_large_half
           /\ pos_small' = after.pos_small
           /\ vel_small_half' = after.vel_small_half
           /\ rocket_pos' = after.rocket_pos
           /\ rocket_vel_half' = after.rocket_vel_half
           /\ rocket_trail' = Append(rocket_trail, <<sim_time, after.rocket_pos>>)
    /\ sim_time' = sim_time + dt
    /\ UNCHANGED <<game, libVars, running, rocketVars, orbitVars, game_state, show_lagrange,
                   spawn_point, rocket_vel, revVars, rocket_offscreen_time,
                   real_start_time, result_text, substep, ticks>>

\* Lines 147-151: the first update of the Verlet rocket, as far as its
\* position and previous position go
Verlet_substep ==
    /\ game = "substep"
    /\ vrocket.time = 0
    /\ vrocket' = [vrocket EXCEPT !.pos = verlet_new_pos(vrocket),
                                  !.prev_pos = vrocket.pos,
                                  !.time = 1]
    /\ UNCHANGED <<game, libVars, running, show_instructions, launch_mode, launched, game_over,
                   win, rkrocket, launch_vector, lagrangeVars, orbitVars>>

NextSubstep ==
    \/ \E dt \in {1, 2} : Leapfrog_substep(dt)
    \/ Verlet_substep

SubstepSpec == InitSubstep /\ [][NextSubstep]_vars

(***************************************************************************)
(* Rocket game: the update of a rocket, wherever it is                     *)
(***************************************************************************)
\* The number of updates the model follows a pair of rockets for.
UP_MAX_TIME == 3

\* A pair of rockets as lines 259-260 construct it, at any of a few
\* positions - the planet's centre among them - with any of a few velocities
InitUpdate ==
    /\ game = "update"
    /\ running = "running"
    /\ InitLib
    /\ InitLagrange
    /\ InitOrbit
    /\ show_instructions = FALSE
    /\ launch_mode = FALSE
    /\ launched = TRUE
    /\ game_over = FALSE
    /\ win = FALSE
    /\ launch_vector = <<0, 0>>
    /\ \E pos \in {planet_pos, launch_pos, PointE, PointS, PointW, PointN},
          vel \in {<<0, 0>>, <<100, 0>>, <<-100, 0>>, <<0, 100>>, <<0, -100>>} :
            /\ rkrocket = RKRocket(pos, vel)
            /\ vrocket = VerletRocket(pos, vel)

\* Lines 276-325 applied to the pair
Update_tick ==
    /\ Playing("update")
    /\ launched /\ ~game_over
    /\ rkrocket.time < UP_MAX_TIME /\ vrocket.time < UP_MAX_TIME
    /\ Simulate_launch
    /\ UNCHANGED <<game, libVars, show_instructions, launch_mode, launched, launch_vector,
                   lagrangeVars, orbitVars>>

UpdateSpec == InitUpdate /\ [][Update_tick]_vars

(***************************************************************************)
(* The gravity functions at sub-pixel resolution.  An offset d from the     *)
(* attractor is counted in units of 1 / GV_FINE pixel; the result is the    *)
(* magnitude of the acceleration one attractor contributes, in whole        *)
(* pixels per second squared.                                               *)
(***************************************************************************)
GV_FINE == 2
\* Offsets reach GV_RANGE units each way
GV_RANGE == 3

\* launch.py lines 56-61: -GM * r_vec / r**3 has magnitude GM / r**2
gravity_launch(d) ==
    IF Length2(d) = 0 THEN 0
    ELSE (GM * GV_FINE * GV_FINE) \div Length2(d)

\* lagrange.py lines 194-199: G * other_mass / r**2 * r_vec.normalize()
gravity_lagrange(d, other_mass) ==
    IF Length2(d) = 0 THEN 0
    ELSE ((other_mass \div G_DEN) * GV_FINE * GV_FINE) \div Length2(d)

\* orbit.py lines 38-46: r_sq is raised to 1, a = G * mass / r_sq, and the
\* components a * dx / r, a * dy / r have magnitude a * sqrt(dx*dx + dy*dy) / r
gravity_orbit(d, mass) ==
    LET raw == Length2(d)
        clamped == raw < GV_FINE * GV_FINE
        r_sq == IF clamped THEN GV_FINE * GV_FINE ELSE raw
        a == (G_orbit * mass * GV_FINE * GV_FINE) \div r_sq
    IN  IF clamped THEN (a * ISqrt(raw)) \div GV_FINE ELSE a

\* The calls the model follows: which function, the offset, and G * mass
GravityCalls ==
    LET offsets == (-GV_RANGE..GV_RANGE) \X (-GV_RANGE..GV_RANGE)
    IN  {[fn |-> "launch", d |-> d, mass |-> 1, gm |-> GM, result |-> Nothing] :
            d \in offsets}
        \cup {[fn |-> "lagrange", d |-> d, mass |-> m, gm |-> m \div G_DEN,
               result |-> Nothing] : d \in offsets, m \in {M_large, M_small}}
        \cup {[fn |-> "orbit", d |-> d, mass |-> Asteroid(<<0, 0>>, size).mass,
               gm |-> G_orbit * Asteroid(<<0, 0>>, size).mass, result |-> Nothing] :
                  d \in offsets, size \in Sizes}

InitGravity ==
    /\ game = "gravity"
    /\ running = "running"
    /\ InitRocket
    /\ InitLagrange
    /\ InitOrbit
    /\ InitEM
    /\ InitMainIdle
    /\ gravity_call \in GravityCalls

\* The call returns
Gravity_return ==
    /\ game = "gravity"
    /\ gravity_call.result = Nothing
    /\ gravity_call' =
          [gravity_call EXCEPT !.result =
              Some(CASE gravity_call.fn = "launch" -> gravity_launch(gravity_call.d)
                     [] gravity_call.fn = "lagrange" ->
                            gravity_lagrange(gravity_call.d, gravity_call.mass)
                     [] OTHER -> gravity_orbit(gravity_call.d, gravity_call.mass))]
    /\ UNCHANGED <<game, running, rocketVars, lagrangeVars, orbitVars, emVars,
                   mainVars>>

GravitySpec == InitGravity /\ [][Gravity_return]_vars

\* ---------------------------------------------------------------------------
\* Event manager (src/opg/event_manager.py): the main thread runs
\* process_events, the game thread enters and leaves subscriptions, changes
\* their event sets, gets events and shuts the manager down
\* ---------------------------------------------------------------------------

EM_MAX_EVENTS == 2

\* The events pygame will hand out, numbered in the order it hands them out
EventStreams ==
    {[k \in 1..EM_MAX_EVENTS |-> [type |-> f[k], seq |-> k]] :
        f \in [1..EM_MAX_EVENTS -> EM_Types]}

\* The programs that run an event manager
EventManaged == game \in {"events", "main"}

IsKey(s) == \E j \in 1..Len(subscriptions) : subscriptions[j].sub = s
IndexOf(s) == CHOOSE j \in 1..Len(subscriptions) : subscriptions[j].sub = s
Queue(s) == IF IsKey(s) THEN subscriptions[IndexOf(s)].queue ELSE <<>>

InitEvents ==
    /\ game = "events"
    /\ InitMainIdle
    /\ running = "running"
    /\ InitRocket
    /\ InitLagrange
    /\ InitOrbit
    /\ gravity_call = <<>>
    /\ subscriptions = <<>>
    /\ subscriptions_lock = "free"
    /\ em_running = FALSE
    /\ active = [s \in EM_Subs |-> FALSE]
    /\ event_list = [s \in EM_Subs |-> {}]
    /\ pygame_queue \in EventStreams
    /\ pe = [pc |-> "start", event |-> NOEVENT, i |-> 0]
    /\ got = [s \in EM_Subs |-> <<>>]
    /\ get_raised = <<>>

\* process_events, had it iterated the subscriptions without their lock
process_events_unlocked ==
    /\ EventManaged
    /\ \/ /\ pe.pc = "start"
          /\ em_running' = TRUE
          /\ pe' = [pe EXCEPT !.pc = "while"]
          /\ UNCHANGED <<subscriptions, subscriptions_lock, pygame_queue>>
       \/ /\ pe.pc = "while"
          /\ pe' = [pe EXCEPT !.pc = IF em_running THEN "wait" ELSE "finally"]
          /\ UNCHANGED <<subscriptions, subscriptions_lock, pygame_queue, em_running>>
       \/ /\ pe.pc = "wait"
          /\ pygame_queue # <<>>
          /\ pe' = [pe EXCEPT !.pc = "lock", !.event = Head(pygame_queue)]
          /\ pygame_queue' = Tail(pygame_queue)
          /\ UNCHANGED <<subscriptions, subscriptions_lock, em_running>>
       \/ /\ pe.pc = "wait"
          /\ pe' = [pe EXCEPT !.pc = "sleep", !.event = NOEVENT]
          /\ UNCHANGED <<subscriptions, subscriptions_lock, pygame_queue, em_running>>
       \/ /\ pe.pc = "lock"
          /\ subscriptions_lock' = "free"
          /\ pe' = [pe EXCEPT !.pc = "for", !.i = 1]
          /\ UNCHANGED <<subscriptions, pygame_queue, em_running>>
       \/ /\ pe.pc = "for"
          /\ pe.i <= Len(subscriptions)
          /\ subscriptions' =
                IF pe.event.type \in event_list[subscriptions[pe.i].sub]
                THEN [subscriptions EXCEPT ![pe.i].queue = Append(@, pe.event)]
                ELSE subscriptions
          /\ pe' = [pe EXCEPT !.i = @ + 1]
          /\ UNCHANGED <<subscriptions_lock, pygame_queue, em_running>>
       \/ /\ pe.pc = "for"
          /\ pe.i > Len(subscriptions)
          /\ subscriptions_lock' = "free"
          /\ pe' = [pe EXCEPT !.pc = "sleep"]
          /\ UNCHANGED <<subscriptions, pygame_queue, em_running>>
       \/ /\ pe.pc = "sleep"
          /\ pe' = [pe EXCEPT !.pc = "while"]
          /\ UNCHANGED <<subscriptions, subscriptions_lock, pygame_queue, em_running>>
       \/ /\ pe.pc = "finally"
          /\ em_running' = FALSE
          /\ pe' = [pe EXCEPT !.pc = "returned"]
          /\ UNCHANGED <<subscriptions, subscriptions_lock, pygame_queue>>
    /\ UNCHANGED <<game, running, rocketVars, lagrangeVars, orbitVars,
                   gravity_call, active, event_list, got, get_raised>>

\* Lines 184-200, one statement at a time.  pygame.event.wait returns the next
\* event, or NOEVENT when none came within the timeout
process_events ==
    /\ EventManaged
    /\ \/ /\ pe.pc = "start"
          /\ em_running' = TRUE
          /\ pe' = [pe EXCEPT !.pc = "while"]
          /\ UNCHANGED <<subscriptions, subscriptions_lock, pygame_queue>>
       \/ /\ pe.pc = "while"
          /\ pe' = [pe EXCEPT !.pc = IF em_running THEN "wait" ELSE "finally"]
          /\ UNCHANGED <<subscriptions, subscriptions_lock, pygame_queue, em_running>>
       \/ /\ pe.pc = "wait"
          /\ pygame_queue # <<>>
          /\ pe' = [pe EXCEPT !.pc = "lock", !.event = Head(pygame_queue)]
          /\ pygame_queue' = Tail(pygame_queue)
          /\ UNCHANGED <<subscriptions, subscriptions_lock, em_running>>
       \/ /\ pe.pc = "wait"
          /\ pe' = [pe EXCEPT !.pc = "sleep", !.event = NOEVENT]
          /\ UNCHANGED <<subscriptions, subscriptions_lock, pygame_queue, em_running>>
       \/ /\ pe.pc = "lock"
          /\ subscriptions_lock = "free"
          /\ subscriptions_lock' = "main"
          /\ pe' = [pe EXCEPT !.pc = "for", !.i = 1]
          /\ UNCHANGED <<subscriptions, pygame_queue, em_running>>
       \/ /\ pe.pc = "for"
          /\ pe.i <= Len(subscriptions)
          /\ subscriptions' =
                IF pe.event.type \in event_list[subscriptions[pe.i].sub]
                THEN [subscriptions EXCEPT ![pe.i].queue = Append(@, pe.event)]
                ELSE subscriptions
          /\ pe' = [pe EXCEPT !.i = @ + 1]
          /\ UNCHANGED <<subscriptions_lock, pygame_queue, em_running>>
       \/ /\ pe.pc = "for"
          /\ pe.i > Len(subscriptions)
          /\ subscriptions_lock' = "free"
          /\ pe' = [pe EXCEPT !.pc = "sleep"]
          /\ UNCHANGED <<subscriptions, pygame_queue, em_running>>
       \/ /\ pe.pc = "sleep"
          /\ pe' = [pe EXCEPT !.pc = "while"]
          /\ UNCHANGED <<subscriptions, subscriptions_lock, pygame_queue, em_running>>
       \/ /\ pe.pc = "finally"
          /\ em_running' = FALSE
          /\ pe' = [pe EXCEPT !.pc = "returned"]
          /\ UNCHANGED <<subscriptions, subscriptions_lock, pygame_queue>>
    /\ UNCHANGED <<game, running, rocketVars, lagrangeVars, orbitVars,
                   gravity_call, active, event_list, got, get_raised>>

\* Lines 34-41.  The game thread is one thread and the body has no await, so
\* the body runs as one step once the lock is free
aenter(s) ==
    /\ EventManaged
    /\ subscriptions_lock = "free"
    /\ subscriptions' =
          IF IsKey(s)
          THEN [subscriptions EXCEPT ![IndexOf(s)].queue = <<>>]
          ELSE Append(subscriptions, [sub |-> s, queue |-> <<>>])
    /\ active' = [active EXCEPT ![s] = TRUE]
    /\ UNCHANGED <<game, running, rocketVars, lagrangeVars, orbitVars,
                   gravity_call, subscriptions_lock, em_running, event_list,
                   pygame_queue, pe, got, get_raised>>

\* __aexit__, had it cleared _active and left the key in the map
aexit_keeping(s) ==
    /\ EventManaged
    /\ subscriptions_lock = "free"
    /\ IsKey(s)
    /\ active' = [active EXCEPT ![s] = FALSE]
    /\ UNCHANGED <<game, running, rocketVars, lagrangeVars, orbitVars,
                   gravity_call, subscriptions, subscriptions_lock, em_running,
                   event_list, pygame_queue, pe, got, get_raised>>

\* Lines 43-51; on a subscription that is no key, line 48 raises KeyError and
\* nothing changes.  The closed queue is dropped with what it held
aexit(s) ==
    /\ EventManaged
    /\ subscriptions_lock = "free"
    /\ IsKey(s)
    /\ subscriptions' = SelectSeq(subscriptions, LAMBDA e : e.sub # s)
    /\ active' = [active EXCEPT ![s] = FALSE]
    /\ UNCHANGED <<game, running, rocketVars, lagrangeVars, orbitVars,
                   gravity_call, subscriptions_lock, em_running, event_list,
                   pygame_queue, pe, got, get_raised>>

\* Lines 56-65: under the lock only when the subscription is active
subscribe(s, events) ==
    /\ EventManaged
    /\ active[s] => subscriptions_lock = "free"
    /\ event_list' = [event_list EXCEPT ![s] = @ \cup events]
    /\ UNCHANGED <<game, running, rocketVars, lagrangeVars, orbitVars,
                   gravity_call, subscriptions, subscriptions_lock, em_running,
                   active, pygame_queue, pe, got, get_raised>>

\* Lines 67-76
unsubscribe(s, events) ==
    /\ EventManaged
    /\ active[s] => subscriptions_lock = "free"
    /\ event_list' = [event_list EXCEPT ![s] = @ \ events]
    /\ UNCHANGED <<game, running, rocketVars, lagrangeVars, orbitVars,
                   gravity_call, subscriptions, subscriptions_lock, em_running,
                   active, pygame_queue, pe, got, get_raised>>

\* Lines 78-85: an inactive subscription raises RuntimeError at line 83; an
\* active one waits until its queue holds an event
get(s) ==
    /\ EventManaged
    /\ IF ~active[s]
       THEN /\ get_raised' = Some(s)
            /\ UNCHANGED <<subscriptions, got>>
       ELSE /\ Queue(s) # <<>>
            /\ got' = [got EXCEPT ![s] = Append(@, Head(Queue(s)))]
            /\ subscriptions' = [subscriptions EXCEPT ![IndexOf(s)].queue = Tail(@)]
            /\ get_raised' = Nothing
    /\ UNCHANGED <<game, running, rocketVars, lagrangeVars, orbitVars,
                   gravity_call, subscriptions_lock, em_running, active,
                   event_list, pygame_queue, pe>>

\* Lines 231-235, on an entered manager
shutdown ==
    /\ EventManaged
    /\ em_running' = FALSE
    /\ UNCHANGED <<game, running, rocketVars, lagrangeVars, orbitVars,
                   gravity_call, subscriptions, subscriptions_lock, active,
                   event_list, pygame_queue, pe, got, get_raised>>

NextEvents ==
    \/ process_events /\ UNCHANGED mainVars
    \/ \E s \in EM_Subs : aenter(s) /\ UNCHANGED mainVars
    \/ \E s \in EM_Subs : aexit(s) /\ UNCHANGED mainVars
    \/ \E s \in EM_Subs, t \in EM_Types : subscribe(s, {t}) /\ UNCHANGED mainVars
    \/ \E s \in EM_Subs, t \in EM_Types : unsubscribe(s, {t}) /\ UNCHANGED mainVars
    \/ \E s \in EM_Subs : get(s) /\ UNCHANGED mainVars
    \/ shutdown /\ UNCHANGED mainVars

EventSpec == InitEvents /\ [][NextEvents]_vars

\* ---------------------------------------------------------------------------
\* The opg program (src/opg/__main__.py): main() in the main thread starts the
\* game thread, which runs _main() as game_task, and processes events until
\* the manager is shut down
\* ---------------------------------------------------------------------------

\* What a statement may raise instead of completing
Raisable == {"KeyboardInterrupt", "Exception"}

InitMain ==
    /\ game = "main"
    /\ running = "running"
    /\ InitRocket
    /\ InitLagrange
    /\ InitOrbit
    /\ gravity_call = <<>>
    /\ subscriptions = <<>>
    /\ subscriptions_lock = "free"
    /\ em_running = FALSE
    /\ active = [s \in EM_Subs |-> FALSE]
    /\ event_list = [s \in EM_Subs |-> {}]
    /\ pygame_queue \in EventStreams
    /\ pe = [pc |-> "idle", event |-> NOEVENT, i |-> 0]
    /\ got = [s \in EM_Subs |-> <<>>]
    /\ get_raised = <<>>
    /\ main_pc = "startup"
    /\ main_exc = <<>>
    /\ game_pc = "idle"
    /\ display = "none"
    /\ cancel_requested = FALSE
    /\ exit_status = <<>>

\* Lines 59-112, one statement at a time; raised is what the statement raises,
\* "none" when it completes
main(raised) ==
    /\ game = "main"
    /\ \/ \* lines 64-94: logging, pygame, the manager, its __enter__, the thread
          /\ main_pc = "startup"
          /\ main_pc' = IF raised = "none" THEN "start" ELSE "except"
          /\ main_exc' = IF raised = "none" THEN <<>> ELSE <<raised>>
          /\ UNCHANGED <<emVars, game_pc, cancel_requested, exit_status>>
       \/ \* lines 96-97: game_thread.start(), and process_events() is entered
          /\ main_pc = "start" /\ raised = "none"
          /\ main_pc' = "process_events"
          /\ game_pc' = "call"
          /\ pe' = [pe EXCEPT !.pc = "start"]
          /\ UNCHANGED <<subscriptions, subscriptions_lock, em_running, active,
                         event_list, pygame_queue, got, get_raised, main_exc,
                         cancel_requested, exit_status>>
       \/ \* line 97: a step of _process_events; at its sleep(0) the loop first
          \* runs a callback that is ready
          /\ main_pc = "process_events" /\ raised = "none"
          /\ pe.pc # "returned"
          /\ pe.pc = "sleep" => display # "requested"
          /\ process_events
          /\ UNCHANGED <<main_pc, main_exc, game_pc, cancel_requested, exit_status>>
       \/ \* line 97: pygame.event.wait raises; line 200 of event_manager.py runs,
          \* lines 98-99
          \* catch a KeyboardInterrupt
          /\ main_pc = "process_events" /\ raised # "none"
          /\ pe.pc = "wait"
          /\ em_running' = FALSE
          /\ pe' = [pe EXCEPT !.pc = "returned"]
          /\ main_exc' = IF raised = "KeyboardInterrupt" THEN <<>> ELSE <<raised>>
          /\ main_pc' = "cancel"
          /\ UNCHANGED <<subscriptions, subscriptions_lock, active, event_list,
                         pygame_queue, got, get_raised, game_pc,
                         cancel_requested, exit_status>>
       \/ \* line 97: process_events() has returned
          /\ main_pc = "process_events" /\ raised = "none"
          /\ pe.pc = "returned"
          /\ main_pc' = "cancel"
          /\ UNCHANGED <<emVars, main_exc, game_pc, cancel_requested, exit_status>>
       \/ \* line 102
          /\ main_pc = "cancel" /\ raised = "none"
          /\ cancel_requested' = TRUE
          /\ main_pc' = "join"
          /\ UNCHANGED <<emVars, main_exc, game_pc, exit_status>>
       \/ \* line 104, then the manager's __exit__
          /\ main_pc = "join" /\ raised = "none"
          /\ game_pc = "done"
          /\ main_pc' = IF main_exc = <<>> THEN "finally" ELSE "except"
          /\ UNCHANGED <<emVars, main_exc, game_pc, cancel_requested, exit_status>>
       \/ \* lines 106-110: sys.exit(1) raises SystemExit(1)
          /\ main_pc = "except" /\ raised = "none"
          /\ main_exc' = IF Head(main_exc) = "KeyboardInterrupt" THEN <<>>
                         ELSE <<"SystemExit(1)">> \o main_exc
          /\ main_pc' = "finally"
          /\ UNCHANGED <<emVars, game_pc, cancel_requested, exit_status>>
       \/ \* lines 111-112: sys.exit(0) raises SystemExit(0), which replaces
          \* the exception the block was entered with
          /\ main_pc = "finally" /\ raised = "none"
          /\ main_exc' = <<"SystemExit(0)">> \o main_exc
          /\ main_pc' = "exiting"
          /\ UNCHANGED <<emVars, game_pc, cancel_requested, exit_status>>
       \/ \* the interpreter exits with the code of the SystemExit that left main()
          /\ main_pc = "exiting" /\ raised = "none"
          /\ exit_status' = Some(IF Head(main_exc) = "SystemExit(1)" THEN 1 ELSE 0)
          /\ main_pc' = "exited"
          /\ UNCHANGED <<emVars, main_exc, game_pc, cancel_requested>>
    /\ UNCHANGED <<game, running, rocketVars, lagrangeVars, orbitVars,
                   gravity_call, display>>

\* Lines 31-40, run by the main thread's loop for event_manager.call
\* (event_manager.py, lines 204-229) while _process_events sleeps
create_display ==
    /\ game = "main"
    /\ main_pc = "process_events"
    /\ pe.pc = "sleep"
    /\ display = "requested"
    /\ display' = "created"
    /\ UNCHANGED <<game, running, rocketVars, lagrangeVars, orbitVars,
                   gravity_call, emVars, main_pc, main_exc, game_pc,
                   cancel_requested, exit_status>>

\* Lines 17-56, _main() in the game thread, from one await to the next;
\* raised says that the statement raises, which lines 52-53 catch
game_task(raised) ==
    /\ game = "main"
    /\ \/ \* line 44: event_manager.call(create_display)
          /\ game_pc = "call"
          /\ IF raised
             THEN game_pc' = "finally" /\ UNCHANGED display
             ELSE game_pc' = "call_wait" /\ display' = "requested"
          /\ UNCHANGED emVars
       \/ \* line 44: the await ends with the display, or with CancelledError
          /\ game_pc = "call_wait" /\ ~raised
          /\ \/ display = "created" /\ game_pc' = "subscribe"
             \/ cancel_requested /\ game_pc' = "finally"
          /\ UNCHANGED <<emVars, display>>
       \/ \* line 46: get_subscription().subscribe(pygame.QUIT)
          /\ game_pc = "subscribe" /\ ~raised
          /\ subscribe("s1", {"QUIT"})
          /\ game_pc' = "aenter"
          /\ UNCHANGED display
       \/ \* line 46: async with
          /\ game_pc = "aenter" /\ ~raised
          /\ aenter("s1")
          /\ game_pc' = "get"
          /\ UNCHANGED display
       \/ \* line 47: await sub.get() returns an event
          /\ game_pc = "get" /\ ~raised
          /\ get("s1")
          /\ game_pc' = "aexit"
          /\ UNCHANGED display
       \/ \* line 47: await sub.get() ends with CancelledError
          /\ game_pc = "get" /\ ~raised
          /\ cancel_requested
          /\ game_pc' = "aexit"
          /\ UNCHANGED <<emVars, display>>
       \/ \* the end of the async with
          /\ game_pc = "aexit" /\ ~raised
          /\ aexit("s1")
          /\ game_pc' = "finally"
          /\ UNCHANGED display
       \/ \* lines 54-56
          /\ game_pc = "finally" /\ ~raised
          /\ shutdown
          /\ game_pc' = "done"
          /\ UNCHANGED display
    /\ UNCHANGED <<game, running, rocketVars, lagrangeVars, orbitVars,
                   gravity_call, main_pc, main_exc, cancel_requested, exit_status>>

NextMain ==
    \/ \E raised \in Raisable \cup {"none"} : main(raised)
    \/ create_display
    \/ \E raised \in BOOLEAN : game_task(raised)

MainSpec == InitMain /\ [][NextMain]_vars

\* Both threads are scheduled fairly and run their statements to completion,
\* and an event that pygame holds is handed out in the end
MainFairSpec ==
    /\ MainSpec
    /\ WF_vars(main("none"))
    /\ WF_vars(create_display)
    /\ WF_vars(game_task(FALSE))
    /\ SF_vars(main("none") /\ pygame_queue' # pygame_queue)



(***************************************************************************)
(* The programs                                                            *)
(***************************************************************************)
Games == {"rocket", "lagrange", "asteroid"}

Init ==
    /\ game \in Games
    /\ running = "running"
    /\ InitRocket
    /\ InitLagrange
    /\ InitOrbit
    /\ InitLib

Next == NextRocket \/ NextLagrange \/ NextOrbit

Spec == Init /\ [][Next]_vars

(***************************************************************************)
(* Properties                                                              *)
(***************************************************************************)
Rockets == IF rkrocket = None THEN {} ELSE {rkrocket, vrocket}

\* C1: in every game a launch or spawn is accepted only while the game waits
\* for one.  Once a run is under way or over, the event handlers never put a
\* fresh probe in place of the one there is and never take the game (back)
\* to simulating: the Lagrange game leaves GAME_OVER only for
\* WAITING_FOR_CLICK and its event handlers leave the rocket and its real
\* start time alone or clear them; a launched pair of rockets is only ever
\* advanced or cleared; a launched satellite is only ever advanced or cleared.
C1_LaunchOnlyWhenWaiting ==
    [][ /\ (game = "lagrange" /\ substep = 0 /\ game_state # WAITING_FOR_CLICK) =>
            /\ game_state' \in {game_state, WAITING_FOR_CLICK}
            /\ rocket_pos' \in {rocket_pos, Nothing}
            /\ real_start_time' \in {real_start_time, Nothing}
        /\ (game = "rocket" /\ launched) =>
            \/ rkrocket' = None /\ vrocket' = None
            \/ rkrocket'.time >= rkrocket.time /\ vrocket'.time >= vrocket.time
        /\ (game = "asteroid" /\ satellite_launched) =>
            \/ satellite_state' \in {satellite_state, Nothing}
            \/ satellite_state' \in rk4_step(satellite_state, asteroids)
      ]_vars

\* C2: in the rocket game a rocket whose status is no longer "In-Orbit" keeps
\* that status in every later step of the run; only the reset, which removes
\* the rocket, ends it.
C2_StatusMonotonic ==
    [][ \A who \in {"rk", "v"} :
          LET before == IF who = "rk" THEN rkrocket ELSE vrocket
              after == IF who = "rk" THEN rkrocket' ELSE vrocket'
          IN  (game = "rocket" /\ before # None /\ before.status # "In-Orbit") =>
                  (after = None \/ after.status = before.status)
      ]_vars

\* A run in which the Verlet rocket was lost and the RK4 rocket flew on
C2_Witness ==
    /\ game = "rocket" /\ rkrocket # None
    /\ vrocket.status = "Lost" /\ rkrocket.status = "In-Orbit"
    /\ rkrocket.time > vrocket.time + 1

\* C3: in the rocket game a frame leaves a rocket that is Lost or Collided
\* exactly as it is - position, velocity or previous position, trail, angles,
\* elapsed time and energy series - while the other rocket flies on; only the
\* reset removes it.
C3_TerminalRocketFrozen ==
    [][ /\ (game = "rocket" /\ rkrocket # None /\ rkrocket.status # "In-Orbit") =>
                rkrocket' \in {rkrocket, None}
        /\ (game = "rocket" /\ vrocket # None /\ vrocket.status # "In-Orbit") =>
                vrocket' \in {vrocket, None}
      ]_vars

\* A run in which the RK4 rocket hit the planet and the Verlet rocket flew on
C3_Witness ==
    /\ game = "rocket" /\ rkrocket # None
    /\ rkrocket.status = "Collided" /\ vrocket.status = "In-Orbit"
    /\ vrocket.time > rkrocket.time + 1

LostText == "You Lose! Your rocket was lost to space."
CollidedText == "Game Over! Rocket collided with a body."
WinTexts == {WinText(<<>>), WinText(<<1>>)}
SatellitePos == <<satellite_state[1], satellite_state[2]>>
\* The satellite is within the combined radii of some asteroid
SatelliteTouches ==
    \E i \in DOMAIN asteroids :
        Length2(VSub(SatellitePos, asteroids[i].pos))
            < (satellite_radius + asteroids[i].size \div 2)
                * (satellite_radius + asteroids[i].size \div 2)

\* C4 as the specification words it: bounds exit comes before collision and
\* collision before the win, in all three games.  A rocket that is Collided
\* is inside the window and a win is owed to a rocket in orbit; a Lagrange
\* run that ended in a collision ended with the rocket on the screen, and one
\* that ended in a win ended clear of both bodies; an asteroid mission that
\* ended in a collision ended with the satellite on the screen.
C4_BoundsBeforeCollision ==
    /\ game = "rocket" =>
        /\ \A r \in Rockets : r.status = "Collided" => InBounds_launch(r.pos)
        /\ win => \E r \in Rockets : r.status = "In-Orbit"
    /\ (game = "lagrange" /\ game_state = GAME_OVER /\ result_text = CollidedText) =>
            ~OffScreen_lagrange(rocket_pos)
    /\ (game = "lagrange" /\ game_state = GAME_OVER /\ result_text \in WinTexts) =>
            ~Collides_lagrange(rocket_pos, pos_large, pos_small)
    /\ (game = "asteroid" /\ game_finished /\ final_message = "Collision! You lost.") =>
            ~OffScreen_orbit(SatellitePos)

\* C4: the order in which each game tests the ends of a run.  Rocket game:
\* window exit, then collision, then the win.  Lagrange game: more than
\* OFFSCREEN_LIMIT simulated seconds off the screen, then collision, then the
\* real-time win; so a rocket that touches a body while it has been off the
\* screen for less ends the run as a collision.  Asteroid game: a satellite
\* that touches an asteroid is on the screen, and the mission then ends as a
\* collision; off the screen it ends as a win or a loss by picture count.
C4_PriorityAsCoded ==
    /\ game = "rocket" =>
        /\ \A r \in Rockets :
            /\ r.status = "Lost" <=> ~InBounds_launch(r.pos)
            /\ r.status = "Collided" <=> (InBounds_launch(r.pos) /\ HitsPlanet(r.pos))
        /\ win => \E r \in Rockets :
                      r.status = "In-Orbit" /\ revolutions(r) >= REVOLUTIONS_TO_WIN
    /\ (game = "lagrange" /\ game_state = GAME_OVER) =>
        /\ result_text = LostText <=> rocket_offscreen_time > OFFSCREEN_LIMIT
        /\ result_text = CollidedText <=>
              /\ rocket_offscreen_time <= OFFSCREEN_LIMIT
              /\ Collides_lagrange(rocket_pos, pos_large, pos_small)
        /\ result_text \in WinTexts <=>
              /\ rocket_offscreen_time <= OFFSCREEN_LIMIT
              /\ ~Collides_lagrange(rocket_pos, pos_large, pos_small)
        /\ result_text \in WinTexts => ticks - Get(real_start_time) >= WIN_REAL_MS
    /\ (game = "asteroid" /\ game_finished) =>
        /\ SatelliteTouches <=> ~OffScreen_orbit(SatellitePos)
        /\ final_message = "Collision! You lost." <=> SatelliteTouches

\* A Lagrange run that ended as a collision with the rocket off the screen
C4_Witness ==
    /\ game = "lagrange" /\ game_state = GAME_OVER
    /\ result_text = CollidedText
    /\ OffScreen_lagrange(rocket_pos)
    /\ rocket_offscreen_time > 0

\* C5 as the specification words it: the rocket game is over exactly when
\* both rockets have left "In-Orbit", so it is never over while a rocket is
\* still in orbit, and it is won exactly when a rocket holds a terminal
\* Completed status.
C5_FinishedWhenBothDown ==
    (game = "rocket" /\ rkrocket # None) =>
        /\ game_over <=> \A r \in Rockets : r.status # "In-Orbit"
        /\ win <=> \E r \in Rockets : r.status = "Completed"

\* C5: the rocket game is over exactly when both rockets have left "In-Orbit"
\* (a loss) or a rocket that is still "In-Orbit" has REVOLUTIONS_TO_WIN
\* revolutions (a win); the winning rocket keeps the status "In-Orbit", and no
\* rocket ever has another status than In-Orbit, Lost or Collided.
C5_FinishedAsCoded ==
    (game = "rocket" /\ rkrocket # None) =>
        LET won == \E r \in Rockets :
                      r.status = "In-Orbit" /\ revolutions(r) >= REVOLUTIONS_TO_WIN
            down == \A r \in Rockets : r.status # "In-Orbit"
        IN  /\ game_over <=> (won \/ down)
            /\ win <=> won
            /\ \A r \in Rockets : r.status \in {"In-Orbit", "Lost", "Collided"}

\* A won game whose RK4 rocket is still in orbit
C5_Witness ==
    /\ game = "rocket" /\ rkrocket # None
    /\ game_over /\ win
    /\ rkrocket.status = "In-Orbit"

\* C6 as the specification words it: in every game the tick that leaves the
\* probe outside the window ends the run as a loss for it.
C6_ExitLosesAtOnce ==
    /\ game = "rocket" => \A r \in Rockets : ~InBounds_launch(r.pos) => r.status = "Lost"
    /\ (game = "lagrange" /\ rocket_offscreen_time > 0) =>
            (game_state = GAME_OVER /\ result_text = LostText)
    /\ (game = "asteroid" /\ satellite_state # Nothing /\ OffScreen_orbit(SatellitePos)) =>
            (game_finished /\ final_message = "Game Over! Pictures taken")

\* C6: what leaving the window does in each game.  Rocket game: the frame
\* that leaves a rocket outside the window makes it Lost.  Asteroid game: the
\* frame that leaves the satellite off the screen ends the mission, as a win
\* if every asteroid has been pictured and as a loss otherwise.  Lagrange
\* game: the run goes on while the rocket has been off the screen for at most
\* OFFSCREEN_LIMIT simulated seconds in a row, and is lost once it has been
\* for longer.
C6_ExitAsCoded ==
    /\ game = "rocket" => \A r \in Rockets : ~InBounds_launch(r.pos) <=> r.status = "Lost"
    /\ game = "lagrange" =>
        /\ game_state = SIMULATING => rocket_offscreen_time <= OFFSCREEN_LIMIT
        /\ rocket_offscreen_time > OFFSCREEN_LIMIT =>
              (game_state = GAME_OVER /\ result_text = LostText)
        /\ (game_state = GAME_OVER /\ result_text = LostText) =>
              rocket_offscreen_time > OFFSCREEN_LIMIT
    /\ (game = "asteroid" /\ satellite_state # Nothing /\ OffScreen_orbit(SatellitePos)) =>
        /\ game_finished
        /\ final_message = IF picture_count = Len(asteroids)
                           THEN "You win! All pictures taken."
                           ELSE "Game Over! Pictures taken"

\* A Lagrange run that goes on with the rocket off the screen after a sub-step
C6_Witness ==
    /\ game = "lagrange" /\ game_state = SIMULATING
    /\ OffScreen_lagrange(rocket_pos)
    /\ rocket_offscreen_time > 0

\* C7: collision detection uses the combined radii.  A probe that a tick
\* leaves closer to an attractor than the sum of the two radii is Collided
\* (the run has ended as a collision) after that tick - in the rocket game
\* closer to the planet than rocket radius plus planet_radius - and a
\* collided rocket keeps its status and position in every later frame.
C7_CombinedRadii ==
    /\ [](game = "rocket" =>
            \A r \in Rockets :
                (r.time > 0 /\ InBounds_launch(r.pos)
                   /\ Length2(VSub(r.pos, planet_pos))
                        < (planet_radius + rocket_radius_launch)
                            * (planet_radius + rocket_radius_launch))
                    => r.status = "Collided")
    /\ []((game = "lagrange" /\ game_state = SIMULATING /\ sim_time > 0
              /\ rocket_offscreen_time <= OFFSCREEN_LIMIT) =>
            ~Collides_lagrange(rocket_pos, pos_large, pos_small))
    /\ []((game = "asteroid" /\ simulation_time > 0 /\ SatelliteTouches) =>
            (game_finished /\ final_message = "Collision! You lost."))
    /\ [][ \A who \in {"rk", "v"} :
             LET before == IF who = "rk" THEN rkrocket ELSE vrocket
                 after == IF who = "rk" THEN rkrocket' ELSE vrocket'
             IN  (game = "rocket" /\ before # None /\ before.status = "Collided") =>
                     (after = None \/ (after.status = "Collided" /\ after.pos = before.pos))
         ]_vars

\* C8: a reset leaves nothing of the run before it.  The step that takes the
\* Lagrange game from GAME_OVER to WAITING_FOR_CLICK, the asteroid game from
\* finished to not finished, or the rocket game from a launched pair of
\* rockets to none, leaves every run variable at its value at program start.
C8_ResetLeavesNothing ==
    [][ /\ (game = "lagrange" /\ game_state = GAME_OVER
              /\ game_state' = WAITING_FOR_CLICK) =>
            /\ rocket_trail' = <<>>
            /\ rocket_pos' = Nothing /\ rocket_vel' = Nothing
            /\ rocket_vel_half' = Nothing
            /\ spawn_point' = Nothing
            /\ sim_time' = 0 /\ rocket_offscreen_time' = 0
            /\ real_start_time' = Nothing
            /\ rocket_angle_total' = 0 /\ rocket_angle_prev' = Nothing
            /\ rocket_revolutions' = 0 /\ revolution_times' = <<>>
            /\ last_revolution_time' = Nothing
            /\ result_text' = ""
            /\ pos_large' = pos_large_0 /\ pos_small' = pos_small_0
        /\ (game = "asteroid" /\ game_finished /\ ~game_finished') =>
            /\ satellite_path' = <<>> /\ position_times' = <<>>
            /\ accel_data' = <<>> /\ energy_data' = <<>>
            /\ satellite_state' = Nothing /\ ~satellite_launched'
            /\ simulation_time' = 0
            /\ picture_count' = 0
            /\ \A i \in DOMAIN asteroids' : ~asteroids'[i].pictured
            /\ final_message' = ""
        /\ (game = "rocket" /\ rkrocket # None /\ rkrocket' = None) =>
            /\ vrocket' = None
            /\ launch_mode' /\ ~launched' /\ ~game_over' /\ ~win'
      ]_vars

C10_SubstepFromSnapshot ==
    [][ (game = "substep" /\ sim_time = 0 /\ sim_time' > 0) =>
            LET after == snapshot_substep(Bodies, sim_time')
            IN  /\ pos_large' = after.pos_large
                /\ pos_small' = after.pos_small
                /\ rocket_pos' = after.rocket_pos
                /\ vel_small_half' = after.vel_small_half
                /\ rocket_vel_half' = after.rocket_vel_half
      ]_vars

\* An angle difference wrapped into the half-open interval (-180, 180]
WrapHalfOpen(d) == LET m == d % 360 IN IF m > 180 THEN m - 360 ELSE m

\* C11: revolution counting accumulates signed angle deltas.  Every tick that
\* moves a rocket adds to its cumulative angle the difference between the new
\* and the previous position angle about the primary body, wrapped into
\* (-180, 180] and with its sign, and the revolutions are the absolute
\* cumulative angle over 360 - for the RK4 rocket, the Verlet rocket and the
\* Lagrange rocket.
C11_SignedAngleDeltas ==
    /\ [][ \A who \in {"rk", "v"} :
             LET before == IF who = "rk" THEN rkrocket ELSE vrocket
                 after == IF who = "rk" THEN rkrocket' ELSE vrocket'
             IN  (game = "rocket" /\ before # None /\ after # None
                    /\ after.time = before.time + 1) =>
                     after.total_angle = before.total_angle
                         + WrapHalfOpen(after.prev_angle - before.prev_angle)
         ]_vars
    /\ [][ (game = "lagrange" /\ substep >= 1 /\ sim_time' > sim_time
              /\ rocket_angle_prev # Nothing) =>
                rocket_angle_total' = rocket_angle_total
                    + WrapHalfOpen(Get(rocket_angle_prev') - Get(rocket_angle_prev))
         ]_vars
    /\ [](game = "lagrange" => rocket_revolutions = Abs(rocket_angle_total) \div 360)

\* s is t, or t with one more entry at its end
ExtendsByAtMostOne(s, t) ==
    \/ s = t
    \/ Len(s) = Len(t) + 1 /\ SubSeq(s, 1, Len(t)) = t

\* C12: the trajectory is append-only, takes at most one position per tick,
\* and holds no position closer to the launch point than the minimum distance
\* PATH_MIN_DISTANCE: the satellite's path in the asteroid game, which only a
\* reset empties, and the trail of each rocket in the rocket game, which
\* lives as long as the rocket.
C12_TrailGated ==
    /\ [](game = "asteroid" =>
            \A i \in DOMAIN satellite_path :
                Length2(VSub(satellite_path[i], CANON_POS))
                    > PATH_MIN_DISTANCE * PATH_MIN_DISTANCE)
    /\ [][ game = "asteroid" =>
             \/ ExtendsByAtMostOne(satellite_path', satellite_path)
             \/ game_finished /\ ~game_finished' /\ satellite_path' = <<>>
         ]_vars
    /\ [](game = "rocket" =>
            \A r \in Rockets : \A i \in DOMAIN r.trail :
                Length2(VSub(r.trail[i], launch_pos))
                    > PATH_MIN_DISTANCE * PATH_MIN_DISTANCE)
    /\ [][ \A who \in {"rk", "v"} :
             LET before == IF who = "rk" THEN rkrocket ELSE vrocket
                 after == IF who = "rk" THEN rkrocket' ELSE vrocket'
             IN  (game = "rocket" /\ before # None /\ after # None) =>
                     ExtendsByAtMostOne(after.trail, before.trail)
         ]_vars

\* C13: the outcome of a run is computed once, on the tick that ends the run.
\* From then on, until a reset clears it, every step leaves the game over
\* and the outcome as it is: final_message in the asteroid game, result_text
\* in the Lagrange game, win in the rocket game; and the tick that ends a run
\* leaves an outcome.
C13_OutcomeOnce ==
    [][ /\ (game = "asteroid" /\ game_finished) =>
            \/ game_finished' /\ final_message' = final_message
            \/ ~game_finished' /\ final_message' = ""
        /\ (game = "asteroid" /\ ~game_finished /\ game_finished') =>
            final_message' # ""
        /\ (game = "lagrange" /\ game_state = GAME_OVER) =>
            \/ game_state' = GAME_OVER /\ result_text' = result_text
            \/ game_state' = WAITING_FOR_CLICK /\ result_text' = ""
        /\ (game = "lagrange" /\ game_state # GAME_OVER /\ game_state' = GAME_OVER) =>
            result_text' # ""
        /\ (game = "rocket" /\ game_over) =>
            \/ game_over' /\ win' = win
            \/ ~game_over' /\ ~win' /\ rkrocket' = None
      ]_vars

C15_ZeroAimRejected ==
    [][ /\ (game = "rocket" /\ launch_mode /\ launch_vector = <<0, 0>>) =>
            (rkrocket' = None /\ vrocket' = None)
        /\ (game = "asteroid" /\ ~satellite_launched
              /\ MouseButtonDown_orbit(CANON_POS)) =>
            (satellite_state' = satellite_state /\ ~satellite_launched')
        /\ (game = "lagrange" /\ game_state = WAITING_FOR_CLICK
              /\ ClickFree_lagrange(COM)) =>
            (rocket_pos' = Nothing /\ game_state' = WAITING_FOR_CLICK)
      ]_vars

\* C16: the Verlet and leapfrog bodies start with a half-step correction.
\* The Verlet rocket is constructed from (pos, v) with
\* prev_pos = pos - v*dt + a(pos)*dt^2/2, and its first update leaves it at
\* pos + v*dt + a(pos)*dt^2 / 2 with prev_pos the position before; the first
\* sub-step of the Lagrange game likewise leaves the planet, the moon and the
\* rocket at pos + v*dt + a(pos)*dt^2 / 2, v being the velocity they start
\* with.  (Lengths are doubled on both sides; dt = 1 / DT_DEN for a rocket.)
C16_HalfStepStart ==
    /\ [](game = "substep" /\ vrocket.time = 0 =>
            VScale(2 * DT_DEN * DT_DEN, VSub(vrocket.prev_pos, vrocket.pos))
                = VSub(gravitational_acceleration(vrocket.pos),
                       VScale(2 * DT_DEN, rkrocket.vel)))
    /\ [][ (game = "substep" /\ vrocket.time = 0 /\ vrocket'.time = 1) =>
             /\ vrocket'.prev_pos = vrocket.pos
             /\ VScale(2 * DT_DEN * DT_DEN, VSub(vrocket'.pos, vrocket.pos))
                    = VAdd(gravitational_acceleration(vrocket.pos),
                           VScale(2 * DT_DEN, rkrocket.vel))
         ]_vars
    /\ [][ (game = "substep" /\ sim_time = 0 /\ sim_time' > 0) =>
             LET dt == sim_time'
                 acc_large == gravitational_acceleration_lagrange(
                                  pos_large, pos_small, M_small)
                 acc_small == gravitational_acceleration_lagrange(
                                  pos_small, pos_large, M_large)
                 acc_rocket == VAdd(gravitational_acceleration_lagrange(
                                        rocket_pos, pos_large, M_large),
                                    gravitational_acceleration_lagrange(
                                        rocket_pos, pos_small, M_small))
             IN  /\ VScale(2, VSub(pos_large', pos_large))
                        = VAdd(VScale(2 * dt, vel_large_half), VScale(dt * dt, acc_large))
                 /\ VScale(2, VSub(pos_small', pos_small))
                        = VAdd(VScale(2 * dt, vel_small_half), VScale(dt * dt, acc_small))
                 /\ VScale(2, VSub(rocket_pos', rocket_pos))
                        = VAdd(VScale(2 * dt, rocket_vel), VScale(dt * dt, acc_rocket))
         ]_vars

\* C17: every gravity function clamps the squared separation to at least 1,
\* so that the acceleration one attractor contributes never exceeds G * mass
\* in magnitude, however close the probe is; and the total over the asteroids
\* is the plain vector sum, the same in either order of the attractors.
C17_ClampedGravity ==
    game = "gravity" =>
        /\ gravity_call.result # Nothing =>
               Get(gravity_call.result) <= gravity_call.gm
        /\ \A asts \in init_asteroids :
               LET state == <<CANON_POS[1] + gravity_call.d[1],
                              CANON_POS[2] + gravity_call.d[2], 0, 0>>
               IN  acceleration(state, asts) = acceleration(state, <<asts[2], asts[1]>>)

\* C18: the rocket game is won as its instruction screen says: when the game
\* is won, a rocket that is In-Orbit has the 150 revolutions of the
\* instructions, and a tick that leaves an In-Orbit rocket with them wins.
C18_WinAsInstructed ==
    (game = "rocket" /\ rkrocket # None) =>
        /\ win => \E r \in Rockets :
                      r.status = "In-Orbit" /\ revolutions(r) >= INSTRUCTED_REVOLUTIONS
        /\ (\E r \in Rockets :
                r.status = "In-Orbit" /\ revolutions(r) >= INSTRUCTED_REVOLUTIONS) => win

\* C19: in the rocket game R restarts at any time.  Once the instructions
\* are dismissed and until the player quits, a press of R is taken in every
\* state - aiming, flying, over with a win or a loss; it leaves the game in
\* launch mode, not launched, not over, not won and without rockets; and the
\* launch that follows makes a fresh pair of rockets at the launch position.
C19_RestartAnyTime ==
    /\ [][ (game = "rocket" /\ KeyDown_launch("K_r")) =>
             /\ launch_mode' /\ ~launched' /\ ~game_over' /\ ~win'
             /\ rkrocket' = None /\ vrocket' = None
         ]_vars
    /\ [][ (game = "rocket" /\ rkrocket = None /\ rkrocket' # None) =>
             /\ launched' /\ ~launch_mode' /\ ~game_over' /\ ~win'
             /\ \A r \in {rkrocket', vrocket'} :
                    /\ r.pos = launch_pos /\ r.time = 0 /\ r.trail = <<>>
                    /\ r.total_angle = 0 /\ r.status = "In-Orbit"
         ]_vars
    /\ []((game = "rocket" /\ ~show_instructions /\ running # "exited") =>
            ENABLED KeyDown_launch("K_r"))

\* What a subscription has been handed so far: what get() returned, then what
\* still waits in its queue
Stream(s) == got[s] \o Queue(s)
Holds(s, e) == \E k \in 1..Len(Stream(s)) : Stream(s)[k] = e
InOrderTaken(q) == \A a, b \in 1..Len(q) : a < b => q[a].seq < q[b].seq

\* C20: while process_events dispatches an event under the subscriptions lock,
\* the event is on a subscription's side exactly when the loop has passed
\* that subscription and the subscription is active and names the event's
\* type; every subscription is handed its events once each and in the order
\* pygame handed them out, and get() returns them in that order; a queue only
\* grows by the put of the event in hand on the subscription the loop is at.
\* The game thread's subscribe, unsubscribe, __aenter__, __aexit__, get and
\* shutdown interleave freely with the main thread's steps.
C20_Delivery ==
    /\ [](game = "events" =>
            /\ \A s \in EM_Subs :
                  /\ InOrderTaken(Stream(s))
                  /\ active[s] <=> IsKey(s)
            /\ pe.pc = "for" =>
                  \A s \in EM_Subs :
                     Holds(s, pe.event) <=>
                        /\ active[s]
                        /\ IndexOf(s) < pe.i
                        /\ pe.event.type \in event_list[s])
    /\ [][\A s \in EM_Subs :
             /\ Len(Stream(s)') > Len(Stream(s)) =>
                   /\ pe.pc = "for" /\ pe.i <= Len(subscriptions)
                   /\ subscriptions[pe.i].sub = s
                   /\ pe.event.type \in event_list[s]
                   /\ Stream(s)' = Append(Stream(s), pe.event)
             /\ got[s]' # got[s] =>
                   /\ Queue(s) # <<>>
                   /\ got[s]' = Append(got[s], Head(Queue(s)))]_vars

\* A dispatch of the second event is complete: of two active subscriptions
\* one was handed it, after it got the first event, and the other was not
C20_Witness ==
    /\ game = "events"
    /\ pe.pc = "for" /\ pe.i > Len(subscriptions)
    /\ Len(subscriptions) = 2
    /\ pe.event.seq = 2
    /\ \E s, t \in EM_Subs :
          /\ s # t
          /\ Holds(s, pe.event) /\ ~Holds(t, pe.event)
          /\ Len(got[s]) = 1 /\ got[s][1].seq = 1

\* C21: a subscription that is not active is no key of the subscriptions map
\* and its queue is handed nothing; get() on it raises RuntimeError, and the
\* call that raises takes no event from any queue and returns none.
C21_InactiveGet ==
    /\ [](game = "events" => \A s \in EM_Subs : ~active[s] => ~IsKey(s))
    /\ [][\A s \in EM_Subs :
             /\ (~active[s] /\ ~active[s]') =>
                   /\ Stream(s)' = Stream(s)
                   /\ Queue(s)' = <<>>
             /\ (get_raised' = Some(s) /\ get_raised # Some(s)) =>
                   /\ ~active[s]
                   /\ got' = got
                   /\ subscriptions' = subscriptions
                   /\ pygame_queue' = pygame_queue]_vars

\* get() has raised on a subscription that was entered, was handed an event,
\* returned it and was left; a later event of a type it names has been
\* dispatched to the other subscription only
C21_Witness ==
    /\ game = "events"
    /\ \E s, t \in EM_Subs :
          /\ s # t
          /\ get_raised = Some(s)
          /\ ~active[s] /\ Len(got[s]) = 1
          /\ active[t] /\ Len(Stream(t)) = 2
          /\ Stream(t)[2].type \in event_list[s]

\* C22: the asteroids of a mission are pairwise at least
\* (size_a + size_b) \div 2 + ASTEROID_BUFFER + the satellite's width apart,
\* and each centre lies in the right half of the screen, EDGE_MARGIN and half
\* the asteroid's size away from the borders.
C22_NonOverlapping ==
    game = "asteroid" =>
        \A i, j \in 1..Len(asteroids) :
            /\ i < j =>
                  LET a == asteroids[i]
                      b == asteroids[j]
                      required_separation ==
                          (a.size + b.size) \div 2 + ASTEROID_BUFFER + satellite_width
                  IN  Length2(VSub(a.pos, b.pos)) >=
                          required_separation * required_separation
            /\ LET a == asteroids[i]
               IN  /\ a.pos[1] >= WIDTH_orbit \div 2 + a.size \div 2 + EDGE_MARGIN
                   /\ a.pos[1] <= WIDTH_orbit - EDGE_MARGIN - a.size \div 2
                   /\ a.pos[2] >= EDGE_MARGIN + a.size \div 2
                   /\ a.pos[2] <= HEIGHT_orbit - EDGE_MARGIN - a.size \div 2

\* Whether a satellite at pos touches one of the asteroids asts
Collides(pos, asts) ==
    \E k \in 1..Len(asts) :
        LET reach == satellite_radius + asts[k].size \div 2
        IN  Length2(VSub(pos, asts[k].pos)) < reach * reach

\* C23: in the asteroid game a tick is simulated only while the mission is not
\* finished, and the mission is finished by a tick and by nothing else; the
\* tick finishes it exactly when the satellite then touches an asteroid or is
\* outside the screen; the result is the win exactly when the satellite is
\* outside the screen, touches no asteroid and every asteroid is pictured,
\* and it is the collision loss whenever the satellite touches an asteroid.
C23_MissionEnd ==
    [][game = "asteroid" =>
          LET tick == simulation_time' = simulation_time + 1
              pos == <<satellite_state'[1], satellite_state'[2]>>
          IN  /\ (game_finished' /\ ~game_finished) => tick
              /\ tick =>
                    /\ ~game_finished
                    /\ game_finished' <=>
                          (Collides(pos, asteroids) \/ OffScreen_orbit(pos))
                    /\ game_finished' =>
                          /\ final_message' = "You win! All pictures taken." <=>
                                /\ OffScreen_orbit(pos)
                                /\ ~Collides(pos, asteroids)
                                /\ \A k \in 1..Len(asteroids') : asteroids'[k].pictured
                          /\ Collides(pos, asteroids) =>
                                final_message' = "Collision! You lost."]_vars

\* Missions have ended in a win
C23_Witness ==
    /\ game = "asteroid"
    /\ game_finished
    /\ final_message = "You win! All pictures taken."
    /\ picture_count = 2

\* C24: once _main() has called shutdown() on the entered manager,
\* process_events() returns in the end, wherever process_events() was when
\* shutdown() was called.
C24_ShutdownNotLost ==
    (game = "main" /\ game_pc = "done") ~> (pe.pc = "returned")

\* C25: with both threads scheduled fairly, a QUIT event that pygame hands
\* out once the display is created leads to the exit of the process.
C25_QuitExits ==
    (game = "main" /\ display = "created"
        /\ pe.pc = "lock" /\ pe.event.type = "QUIT") ~> (main_pc = "exited")

\* C26: the process exits with status 1 when main() went through its
\* "Unhandled exception" branch, where sys.exit(1) raised SystemExit(1), and
\* with status 0 otherwise.
C26_ExitStatus ==
    (game = "main" /\ exit_status # Nothing) =>
        exit_status =
            Some(IF \E k \in 1..Len(main_exc) : main_exc[k] = "SystemExit(1)"
                 THEN 1 ELSE 0)

\* The series of a rocket after its updates.  Times are counted in units of
\* dt, in exact arithmetic; the program adds dt to a float, so that its t[i]
\* and (i+1)*dt agree up to rounding
SeriesAligned(rocket) ==
    LET e == rocket.energies
        n == rocket.time
    IN  /\ Len(rocket.trail) = n
        /\ Len(e.t) = n /\ Len(e.kin) = n /\ Len(e.pot) = n /\ Len(e.mech) = n
        /\ \A i \in 1..n :
              /\ e.t[i] = i
              /\ e.mech[i] = e.kin[i] + e.pot[i]

\* C27: a rocket that was updated n times has a trail and lists t, kin, pot
\* and mech of length n, with t the multiples of dt in order and mech the sum
\* of kin and pot; in the asteroid game accel_data and energy_data hold one
\* entry for every simulated tick, keyed by the simulation time of that tick,
\* and position_times is as long as satellite_path.
C27_SeriesAligned ==
    /\ game = "rocket" =>
          /\ rkrocket # None => SeriesAligned(rkrocket)
          /\ vrocket # None => SeriesAligned(vrocket)
    /\ game = "asteroid" =>
          /\ Len(accel_data) = simulation_time
          /\ Len(energy_data) = simulation_time
          /\ \A i \in 1..simulation_time :
                accel_data[i][1] = i /\ energy_data[i][1] = i
          /\ Len(position_times) = Len(satellite_path)

\* Both rockets have been updated three times
C27_Witness ==
    /\ game = "rocket"
    /\ rkrocket # None /\ rkrocket.time >= 3
    /\ vrocket # None /\ vrocket.time >= 3
    /\ Len(vrocket.energies.mech) >= 3

====
